---------------------------- MODULE Spec2Model ----------------------------
(***************************************************************************)
(* Booking and capacity engine of trainer_bot (src/bot.py, src/app/db.py,  *)
(* src/app/utils.py): training slots and tournaments, join / second seat / *)
(* leave / admin booking handlers over the SQLite booking store.           *)
(*                                                                         *)
(* Time is counted in whole minutes since midnight of day 0.               *)
(***************************************************************************)
EXTENDS Integers, Sequences, FiniteSets, TLC

\* ------------------------------------------------------------------ bounds
NumUsers == 3          \* registered members of the group
MaxBookings == 3       \* rows the bookings table may grow to
MaxGuests == 1         \* guest users an administrator may create
MaxCapacity == 2       \* largest capacity an entity is created with
MaxWaitlist == 2       \* largest waitlist_limit a tournament is created with
NumProcs == 2          \* handler invocations that may overlap in time
MaxPaidBookings == 2   \* rows of the bookings table when payment toggles interleave with Leave
MaxNewcomers == 2      \* Telegram users who register while the bot runs
MaxGuestRows == 3      \* guest rows created when guest creation is studied on its own
MaxSent == 2           \* slot-opened messages delivered while scans are studied

\* --------------------------------------------------------- program constants
MinutesPerDay == 1440
DefaultOpenDaysBefore == 2
DefaultCancelMinutesBefore == 360

\* ------------------------------------------------------------ fixed entities
SlotId == 1
TournamentId == 1
GroupId == 1
OtherGroupId == 2
OutsiderId == NumUsers + 1                 \* registered user of another group
Members == 1..NumUsers
Callers == Members \cup {OutsiderId}
AdminId == 1
GuestNames == {"", "Ivan Ivanov"}          \* texts an administrator may send as a guest name
None == 0                                  \* Python None / SQL NULL / no row

StartsAt == 3 * MinutesPerDay + 19 * 60    \* day 3, 19:00
CloseMinutesBefore == 60

VARIABLES
  users,             \* users table: user_id -> [group_id, notify_open]
  training_slots,    \* training_slots table: slot_id -> row
  tournaments,       \* tournaments table: tournament_id -> row
  group_settings,    \* group_settings table: group_id -> row
  tournament_groups, \* tournament_groups table: set of <<tournament_id, group_id>>
  bookings,          \* bookings table: booking_id (1..Len) -> row
  payments,          \* payments table: sequence of rows
  now,               \* wall clock read by tz_now
  last,              \* the last handler call that wrote a booking, and its answer
  procs,             \* overlapping handler invocations: position and local variables
  rt,                \* observer of one user's Join, JoinSecondSeat, Leave, Leave sequence
  buttons,           \* booking ids on the payment toggle buttons of messages in the admin chat
  notify_open_log,   \* notify_open_log table: set of <<user_id, slot_id>>
  sent,              \* slot-opened messages bot.send_message has delivered, in order
  scan,              \* the notify_open_loop task: position and local variables
  outbox,            \* waitlist-promoted messages given to bot.send_message, in order
  admin_invites,     \* admin_invites table: token (1..Len) -> is_active
  admins             \* admins table and ADMIN_CACHE: user ids added by start_handler

vars == <<users, training_slots, tournaments, group_settings, tournament_groups,
          bookings, payments, now, last, procs, rt,
          buttons, notify_open_log, sent, scan, outbox, admin_invites, admins>>

\* everything the program itself reads or writes
prog == <<users, training_slots, tournaments, group_settings, tournament_groups,
          bookings, payments, now, last, procs>>

config == <<training_slots, tournaments, group_settings, tournament_groups>>

\* the admin chat and the notification task, which the booking handlers leave alone
others == <<buttons, notify_open_log, sent, scan, outbox, admin_invites, admins>>


\* ------------------------------------------------------- TimeWindow calculator
\* utils.compute_open_datetime: (starts_at - open_days_before days) with the
\* time of day replaced by open_time = <<hh, mm>> (the parsed "HH:MM").
compute_open_datetime(starts_at, open_days_before, open_time) ==
  LET base == starts_at - open_days_before * MinutesPerDay
  IN  (base \div MinutesPerDay) * MinutesPerDay + open_time[1] * 60 + open_time[2]

\* mutant: the minutes are subtracted whatever the close mode is
compute_close_datetime_any_mode(starts_at, close_mode, close_minutes_before) ==
  IF close_minutes_before # None
  THEN starts_at - close_minutes_before
  ELSE starts_at

\* utils.compute_close_datetime
compute_close_datetime(starts_at, close_mode, close_minutes_before) ==
  IF close_mode = "minutes_before" /\ close_minutes_before # None
  THEN starts_at - close_minutes_before
  ELSE starts_at

\* utils.compute_cancel_deadline
compute_cancel_deadline(starts_at, cancel_minutes_before) ==
  starts_at - cancel_minutes_before

\* ------------------------------------------------------------- booking store
RECURSIVE SumSeats(_, _)
SumSeats(bk, ids) ==
  IF ids = {} THEN 0
  ELSE LET i == CHOOSE j \in ids : TRUE
       IN  bk[i].seats + SumSeats(bk, ids \ {i})

\* rows of one entity in one status
RowsOf(bk, et, eid, st) ==
  {i \in DOMAIN bk : bk[i].entity_type = et /\ bk[i].entity_id = eid /\ bk[i].status = st}

\* mutant: COUNT(*) of the active rows instead of the sum of their seats
count_active_bookings_rows(bk, et, eid) == Cardinality(RowsOf(bk, et, eid, "active"))

\* DB.count_active_bookings: COALESCE(SUM(seats),0) over the active rows
count_active_bookings(bk, et, eid) == SumSeats(bk, RowsOf(bk, et, eid, "active"))

\* mutant: the status filter is dropped in favour of the cancelled rows
count_bookings_cancelled(bk, et, eid, st) == Cardinality(RowsOf(bk, et, eid, "cancelled"))

\* DB.count_bookings: COUNT(*) of the rows in one status
count_bookings(bk, et, eid, st) == Cardinality(RowsOf(bk, et, eid, st))

\* mutant: the status filter is missing, cancelled rows are selected too
UserActiveRows_any_status(bk, u, et, eid) ==
  {i \in DOMAIN bk : bk[i].entity_type = et /\ bk[i].entity_id = eid /\ bk[i].user_id = u}

\* rows DB.get_user_booking selects from (status = 'active')
UserActiveRows(bk, u, et, eid) ==
  {i \in RowsOf(bk, et, eid, "active") : bk[i].user_id = u}

\* mutant: the entity_type filter is missing, rows of the other kind of entity
\* with the same id are selected too
UserAnyRows_any_type(bk, u, et, eid) ==
  {i \in DOMAIN bk : /\ bk[i].entity_id = eid
                     /\ bk[i].status \in {"active", "waitlist"}
                     /\ bk[i].user_id = u}

\* rows DB.get_user_booking_any selects from (status IN ('active','waitlist'))
UserAnyRows(bk, u, et, eid) ==
  {i \in RowsOf(bk, et, eid, "active") \cup RowsOf(bk, et, eid, "waitlist") :
     bk[i].user_id = u}

\* DB.get_user_booking: fetchone over the active rows of the user; the unique
\* index uq_booking_active leaves at most one such row.  None when there is none.
get_user_booking(bk, u, et, eid) ==
  IF UserActiveRows(bk, u, et, eid) = {} THEN None
  ELSE CHOOSE i \in UserActiveRows(bk, u, et, eid) : TRUE

\* DB.get_user_booking_any: fetchone of a query without ORDER BY; any matching
\* row may come back, so the result is a set of possible answers.
get_user_booking_any(bk, u, et, eid) ==
  IF UserAnyRows(bk, u, et, eid) = {} THEN {None} ELSE UserAnyRows(bk, u, et, eid)

\* uq_booking_active: writing status 'active' into row i (a new row when
\* i = None) is refused when another active row has the same user and entity.
ViolatesUnique(bk, i, u, et, eid) ==
  \E j \in UserActiveRows(bk, u, et, eid) : j # i

\* DB.create_booking raises IntegrityError (nothing is written) in this case
CreateFails(bk, u, et, eid, st) ==
  st = "active" /\ ViolatesUnique(bk, None, u, et, eid)

\* DB.create_booking: the INSERT into bookings; created_at is the insertion
\* instant, later for every later row.
create_booking(bk, u, et, eid, st) ==
  Append(bk, [user_id |-> u, entity_type |-> et, entity_id |-> eid,
              status |-> st, seats |-> 1, created_at |-> Len(bk) + 1])

\* DB.create_booking: the INSERT OR IGNORE of the pending payment of booking b
create_payment(pay, b) ==
  IF \E k \in DOMAIN pay : pay[k].booking_id = b THEN pay
  ELSE Append(pay, [booking_id |-> b, status |-> "pending", confirmed_by |-> None])

\* DB.toggle_payment, the SELECT: the status of the payment row of booking b,
\* "none" (no row) when the booking has no payment row
payment_status(pay, b) ==
  IF \E k \in DOMAIN pay : pay[k].booking_id = b
  THEN pay[CHOOSE k \in DOMAIN pay : pay[k].booking_id = b].status
  ELSE "none"

\* mutant: a confirmed payment is toggled to 'rejected'
toggle_new_status_rejected(status) ==
  IF status # "confirmed" THEN "confirmed" ELSE "rejected"

\* DB.toggle_payment: new_status computed from the status that was read
\* ('pending' stands in for a missing row)
toggle_new_status(status) ==
  IF status # "confirmed" THEN "confirmed" ELSE "pending"

\* DB.toggle_payment raises IntegrityError (booking_id is UNIQUE, nothing is
\* written) when the SELECT saw no row and a row exists at the INSERT
ToggleFails(pay, b, status) ==
  status = "none" /\ \E k \in DOMAIN pay : pay[k].booking_id = b

\* DB.toggle_payment, the writes after the SELECT returned `status`: the INSERT
\* of a missing row and the UPDATE of status and confirmed_by, one commit
toggle_write(pay, b, admin_id, status) ==
  LET with_row == IF status = "none"
                  THEN Append(pay, [booking_id |-> b, status |-> "pending",
                                    confirmed_by |-> None])
                  ELSE pay
      new_status == toggle_new_status(IF status = "none" THEN "pending" ELSE status)
  IN  [k \in DOMAIN with_row |->
         IF with_row[k].booking_id = b
         THEN [with_row[k] EXCEPT !.status = new_status, !.confirmed_by = admin_id]
         ELSE with_row[k]]

\* DB.toggle_payment with nothing in between
toggle_payment(pay, b, admin_id) == toggle_write(pay, b, admin_id, payment_status(pay, b))

\* mutant: the seats argument is ignored, the row is set to two seats
update_booking_seats_two(bk, b, n) == [bk EXCEPT ![b].seats = 2]

\* DB.update_booking_seats
update_booking_seats(bk, b, n) == [bk EXCEPT ![b].seats = n]

\* DB.cancel_booking
cancel_booking(bk, b) == [bk EXCEPT ![b].status = "cancelled"]

\* DB.update_booking_status raises IntegrityError in this case
UpdateStatusFails(bk, b, st) ==
  st = "active" /\ ViolatesUnique(bk, b, bk[b].user_id, bk[b].entity_type, bk[b].entity_id)

\* DB.update_booking_status
update_booking_status(bk, b, st) == [bk EXCEPT ![b].status = st]

\* mutant: ORDER BY created_at DESC, the newest waitlisted row
pop_waitlist_newest(bk, et, eid) ==
  LET W == RowsOf(bk, et, eid, "waitlist")
  IN  IF W = {} THEN None
      ELSE CHOOSE i \in W : \A j \in W : bk[i].created_at >= bk[j].created_at

\* DB.pop_waitlist: the waitlisted row with the least created_at, None if none
pop_waitlist(bk, et, eid) ==
  LET W == RowsOf(bk, et, eid, "waitlist")
  IN  IF W = {} THEN None
      ELSE CHOOSE i \in W : \A j \in W : bk[i].created_at <= bk[j].created_at

\* DB.upsert_user: a new row (group_id NULL, notify_open 0) for an unknown
\* user_id; a known user keeps group_id and notify_open
upsert_user(us, u) ==
  IF u \in DOMAIN us THEN us
  ELSE [k \in DOMAIN us \cup {u} |->
          IF k = u THEN [group_id |-> None, notify_open |-> 0] ELSE us[k]]

\* DB.set_user_group
set_user_group(us, u, gid) == [us EXCEPT ![u].group_id = gid]

\* mutant: every guest is given the identifier -1
new_guest_id_fixed(us) == -1

\* DB.create_guest_user: the identifier given to a new guest
new_guest_id(us) ==
  LET min_id == CHOOSE m \in DOMAIN us : \A k \in DOMAIN us : m <= k
  IN  IF DOMAIN us = {} \/ min_id >= 0 THEN -1 ELSE min_id - 1

\* DB.create_guest_user: the INSERT of the guest row (group_id NULL, notify_open 0)
create_guest_user(us, group_id) ==
  LET id == new_guest_id(us)
  IN  [k \in DOMAIN us \cup {id} |->
         IF k = id THEN [group_id |-> group_id, notify_open |-> 0] ELSE us[k]]


\* ------------------------------------------------------------------ instants
\* open_dt / close_dt / cancel_deadline as the training handlers compute them
SlotOpen ==
  LET st == group_settings[training_slots[SlotId].group_id]
  IN  compute_open_datetime(training_slots[SlotId].starts_at, st.open_days_before, st.open_time)
SlotClose ==
  LET st == group_settings[training_slots[SlotId].group_id]
  IN  compute_close_datetime(training_slots[SlotId].starts_at, st.close_mode, st.close_minutes_before)
SlotCancel ==
  LET st == group_settings[training_slots[SlotId].group_id]
  IN  compute_cancel_deadline(training_slots[SlotId].starts_at, st.cancel_minutes_before)
\* close_dt / cancel_deadline as the tournament handlers compute them
TourClose ==
  LET t == tournaments[TournamentId]
  IN  compute_close_datetime(t.starts_at, t.close_mode, t.close_minutes_before)
TourCancel ==
  LET t == tournaments[TournamentId]
  IN  compute_cancel_deadline(t.starts_at, t.cancel_minutes_before)

\* the instants tz_now is read at: for a slot just before it opens, at its
\* opening, at its cancel deadline and at its close; for a tournament before
\* its cancel deadline, at the deadline and at its close
TimePoints ==
  (IF SlotId \in DOMAIN training_slots
   THEN {SlotOpen - 1, SlotOpen, SlotCancel, SlotClose} ELSE {})
  \cup
  (IF TournamentId \in DOMAIN tournaments
   THEN {TourCancel - 1, TourCancel, TourClose} ELSE {})

Earliest(T) == CHOOSE t \in T : \A x \in T : t <= x

\* ---------------------------------------------------------- handler endings
Answer(op, u, outcome, promoted) ==
  [op |-> op, user |-> u, outcome |-> outcome, promoted |-> promoted]

\* a handler that answers the caller and returns without a store write
Reject == UNCHANGED prog

\* DB.create_booking as a handler calls it: the booking row and its payment
\* row, one commit
StoreInsert(op, u, et, eid, st, outcome) ==
  /\ Len(bookings) < MaxBookings
  /\ bookings' = create_booking(bookings, u, et, eid, st)
  /\ payments' = create_payment(payments, Len(bookings) + 1)
  /\ last' = Answer(op, u, outcome, None)
  /\ UNCHANGED <<users, config, now>>

\* the same inside a handler that runs without overlapping another one
CreateBooking(op, u, et, eid, st, outcome) ==
  StoreInsert(op, u, et, eid, st, outcome) /\ UNCHANGED procs

\* a handler whose store writes turn the bookings table into bk
WriteBookings(op, u, bk, outcome, promoted) ==
  /\ bookings' = bk
  /\ last' = Answer(op, u, outcome, promoted)
  /\ UNCHANGED <<users, config, payments, now, procs>>

\* --------------------------------------------------------- training handlers
\* mutant: the open instant itself still counts as too early
TrainJoinOutcome_late(u) ==
  LET slot == training_slots[SlotId]
      booked == count_active_bookings(bookings, "training", SlotId)
      existing == get_user_booking(bookings, u, "training", SlotId)
  IN  IF SlotId \notin DOMAIN training_slots THEN "EntityNotFound"
      ELSE IF u \notin DOMAIN users \/ users[u].group_id # slot.group_id
        THEN "NotYourGroup"
      ELSE IF now <= SlotOpen THEN "TooEarly"
      ELSE IF now >= SlotClose THEN "Closed"
      ELSE IF booked >= slot.capacity THEN "Full"
      ELSE IF existing # None THEN "AlreadyEnrolled"
      ELSE IF CreateFails(bookings, u, "training", SlotId, "active") THEN "Error"
      ELSE "Joined"

\* what cb_train_join answers to user u in the current state
TrainJoinOutcome(u) ==
  LET slot == training_slots[SlotId]
      booked == count_active_bookings(bookings, "training", SlotId)
      existing == get_user_booking(bookings, u, "training", SlotId)
  IN  IF SlotId \notin DOMAIN training_slots THEN "EntityNotFound"
      ELSE IF u \notin DOMAIN users \/ users[u].group_id # slot.group_id
        THEN "NotYourGroup"
      ELSE IF now < SlotOpen THEN "TooEarly"
      ELSE IF now >= SlotClose THEN "Closed"
      ELSE IF booked >= slot.capacity THEN "Full"
      ELSE IF existing # None THEN "AlreadyEnrolled"
      ELSE IF CreateFails(bookings, u, "training", SlotId, "active") THEN "Error"
      ELSE "Joined"

cb_train_join(u) ==
  IF TrainJoinOutcome(u) = "Joined"
  THEN CreateBooking("train_join", u, "training", SlotId, "active", "Joined")
  ELSE Reject

\* what cb_train_join_second answers to user u in the current state
TrainJoinSecondOutcome(u) ==
  LET slot == training_slots[SlotId]
      booked == count_active_bookings(bookings, "training", SlotId)
      existing == get_user_booking(bookings, u, "training", SlotId)
  IN  IF SlotId \notin DOMAIN training_slots THEN "EntityNotFound"
      ELSE IF u \notin DOMAIN users \/ users[u].group_id # slot.group_id
        THEN "NotYourGroup"
      ELSE IF now < SlotOpen THEN "TooEarly"
      ELSE IF now >= SlotClose THEN "Closed"
      ELSE IF booked >= slot.capacity THEN "Full"
      ELSE IF existing = None
        THEN IF CreateFails(bookings, u, "training", SlotId, "active")
             THEN "Error" ELSE "Joined"
      ELSE IF bookings[existing].seats >= 2 THEN "AlreadyTwo"
      ELSE "SecondSeat"

cb_train_join_second(u) ==
  LET existing == get_user_booking(bookings, u, "training", SlotId)
  IN  CASE TrainJoinSecondOutcome(u) = "Joined" ->
             CreateBooking("train_join2", u, "training", SlotId, "active", "Joined")
        [] TrainJoinSecondOutcome(u) = "SecondSeat" ->
             WriteBookings("train_join2", u,
               update_booking_seats(bookings, existing, bookings[existing].seats + 1),
               "SecondSeat", None)
        [] OTHER -> Reject

\* mutant: at the cancel deadline itself a Leave is still accepted
TrainLeaveOutcome_late(u) ==
  LET booking == get_user_booking(bookings, u, "training", SlotId)
  IN  IF SlotId \notin DOMAIN training_slots THEN "EntityNotFound"
      ELSE IF booking = None THEN "NotEnrolled"
      ELSE IF now > SlotCancel THEN "CancelWindowClosed"
      ELSE IF bookings[booking].seats > 1 THEN "SeatRemoved"
      ELSE "Cancelled"

\* what cb_train_leave answers to user u in the current state
TrainLeaveOutcome(u) ==
  LET booking == get_user_booking(bookings, u, "training", SlotId)
  IN  IF SlotId \notin DOMAIN training_slots THEN "EntityNotFound"
      ELSE IF booking = None THEN "NotEnrolled"
      ELSE IF now >= SlotCancel THEN "CancelWindowClosed"
      ELSE IF bookings[booking].seats > 1 THEN "SeatRemoved"
      ELSE "Cancelled"

cb_train_leave(u) ==
  LET booking == get_user_booking(bookings, u, "training", SlotId)
  IN  CASE TrainLeaveOutcome(u) = "SeatRemoved" ->
             WriteBookings("train_leave", u,
               update_booking_seats(bookings, booking, bookings[booking].seats - 1),
               "SeatRemoved", None)
        [] TrainLeaveOutcome(u) = "Cancelled" ->
             WriteBookings("train_leave", u, cancel_booking(bookings, booking),
               "Cancelled", None)
        [] OTHER -> Reject

\* mutant: the administrator's booking waits for the open instant like a Join
AdminBookOutcome_gated(name) ==
  LET slot == training_slots[SlotId]
      booked == count_active_bookings(bookings, "training", SlotId)
  IN  IF name = "" THEN "EmptyName"
      ELSE IF SlotId \notin DOMAIN training_slots THEN "EntityNotFound"
      ELSE IF now < SlotOpen THEN "TooEarly"
      ELSE IF booked >= slot.capacity THEN "Full"
      ELSE "Joined"

\* what message_router answers in mode admin_training_book:<slot_id>
AdminBookOutcome(name) ==
  LET slot == training_slots[SlotId]
      booked == count_active_bookings(bookings, "training", SlotId)
  IN  IF name = "" THEN "EmptyName"       \* the handler asks for the name again
      ELSE IF SlotId \notin DOMAIN training_slots THEN "EntityNotFound"
      ELSE IF booked >= slot.capacity THEN "Full"
      ELSE "Joined"

\* message_router, mode admin_training_book:<slot_id>, for administrator a who
\* sent the text `name` (stripped; empty when the message carries no text)
admin_training_book(a, name) ==
  LET guest_id == new_guest_id(users)
  IN  IF AdminBookOutcome(name) = "Joined"
      THEN /\ Cardinality({k \in DOMAIN users : k < 0}) < MaxGuests
           /\ Len(bookings) < MaxBookings
           /\ users' = create_guest_user(users, None)
           /\ bookings' = create_booking(bookings, guest_id, "training", SlotId, "active")
           /\ payments' = create_payment(payments, Len(bookings) + 1)
           /\ last' = Answer("admin_book", guest_id, "Joined", None)
           /\ UNCHANGED <<config, now, procs>>
      ELSE Reject

\* ------------------------------------------------------- tournament handlers
\* mutant: any user who has a group passes
TourGroupOk_any_group(u) == u \in DOMAIN users /\ users[u].group_id # None

\* the group check of cb_tour_join / cb_tour_join_second (no user row, no
\* group, or a group the tournament is not for)
TourGroupOk(u) ==
  /\ u \in DOMAIN users
  /\ users[u].group_id # None
  /\ <<TournamentId, users[u].group_id>> \in tournament_groups

\* mutant: the waitlist admits one booking more than its limit
TourJoinOutcome_roomy(u) ==
  LET t == tournaments[TournamentId]
      existing == get_user_booking_any(bookings, u, "tournament", TournamentId)
      booked == count_active_bookings(bookings, "tournament", TournamentId)
      waitlist_count == count_bookings(bookings, "tournament", TournamentId, "waitlist")
      waitlist_limit == t.waitlist_limit
  IN  IF TournamentId \notin DOMAIN tournaments THEN "EntityNotFound"
      ELSE IF ~TourGroupOk(u) THEN "NotYourGroup"
      ELSE IF now >= TourClose THEN "Closed"
      ELSE IF existing # {None} THEN "AlreadyEnrolled"
      ELSE IF booked < t.capacity
        THEN IF CreateFails(bookings, u, "tournament", TournamentId, "active")
             THEN "Error" ELSE "Joined"
      ELSE IF waitlist_limit > 0 /\ waitlist_count <= waitlist_limit THEN "Waitlisted"
      ELSE "Full"

\* what cb_tour_join answers to user u in the current state
TourJoinOutcome(u) ==
  LET t == tournaments[TournamentId]
      existing == get_user_booking_any(bookings, u, "tournament", TournamentId)
      booked == count_active_bookings(bookings, "tournament", TournamentId)
      waitlist_count == count_bookings(bookings, "tournament", TournamentId, "waitlist")
      waitlist_limit == t.waitlist_limit
  IN  IF TournamentId \notin DOMAIN tournaments THEN "EntityNotFound"
      ELSE IF ~TourGroupOk(u) THEN "NotYourGroup"
      ELSE IF now >= TourClose THEN "Closed"
      ELSE IF existing # {None} THEN "AlreadyEnrolled"
      ELSE IF booked < t.capacity
        THEN IF CreateFails(bookings, u, "tournament", TournamentId, "active")
             THEN "Error" ELSE "Joined"
      ELSE IF waitlist_limit > 0 /\ waitlist_count < waitlist_limit THEN "Waitlisted"
      ELSE "Full"

cb_tour_join(u) ==
  CASE TourJoinOutcome(u) = "Joined" ->
         CreateBooking("tour_join", u, "tournament", TournamentId, "active", "Joined")
    [] TourJoinOutcome(u) = "Waitlisted" ->
         CreateBooking("tour_join", u, "tournament", TournamentId, "waitlist", "Waitlisted")
    [] OTHER -> Reject

\* what cb_tour_join_second answers to user u in the current state
TourJoinSecondOutcome(u) ==
  LET t == tournaments[TournamentId]
      booked == count_active_bookings(bookings, "tournament", TournamentId)
      existing_active == get_user_booking(bookings, u, "tournament", TournamentId)
  IN  IF TournamentId \notin DOMAIN tournaments THEN "EntityNotFound"
      ELSE IF ~TourGroupOk(u) THEN "NotYourGroup"
      ELSE IF now >= TourClose THEN "Closed"
      ELSE IF booked >= t.capacity THEN "Full"
      ELSE IF existing_active = None
        THEN IF CreateFails(bookings, u, "tournament", TournamentId, "active")
             THEN "Error" ELSE "Joined"
      ELSE IF bookings[existing_active].seats >= 2 THEN "AlreadyTwo"
      ELSE "SecondSeat"

cb_tour_join_second(u) ==
  LET existing_active == get_user_booking(bookings, u, "tournament", TournamentId)
  IN  CASE TourJoinSecondOutcome(u) = "Joined" ->
             CreateBooking("tour_join2", u, "tournament", TournamentId, "active", "Joined")
        [] TourJoinSecondOutcome(u) = "SecondSeat" ->
             WriteBookings("tour_join2", u,
               update_booking_seats(bookings, existing_active,
                                    bookings[existing_active].seats + 1),
               "SecondSeat", None)
        [] OTHER -> Reject

\* the row cb_tour_leave promotes after cancelling row `booking`: the head of
\* the waitlist when the cancelled row was active, None otherwise
NextWait(booking) ==
  IF bookings[booking].status = "active"
  THEN pop_waitlist(cancel_booking(bookings, booking), "tournament", TournamentId)
  ELSE None

\* what cb_tour_leave answers to user u when its query returned row `booking`
TourLeaveOutcome(u, booking) ==
  IF TournamentId \notin DOMAIN tournaments THEN "EntityNotFound"
  ELSE IF booking = None THEN "NotEnrolled"
  ELSE IF now >= TourCancel THEN "CancelWindowClosed"
  ELSE IF bookings[booking].status = "active" /\ bookings[booking].seats > 1
    THEN "SeatRemoved"
  ELSE IF NextWait(booking) = None THEN "Cancelled"
  ELSE IF UpdateStatusFails(cancel_booking(bookings, booking), NextWait(booking), "active")
    THEN "PromotionError"      \* IntegrityError after the cancellation was committed
  ELSE "Promoted"

\* the store writes of cb_tour_leave when its query returned row `booking`
tour_leave_from(u, booking) ==
  CASE TourLeaveOutcome(u, booking) = "SeatRemoved" ->
         WriteBookings("tour_leave", u,
           update_booking_seats(bookings, booking, bookings[booking].seats - 1),
           "SeatRemoved", None)
    [] TourLeaveOutcome(u, booking) = "Cancelled" ->
         WriteBookings("tour_leave", u, cancel_booking(bookings, booking),
           "Cancelled", None)
    [] TourLeaveOutcome(u, booking) = "PromotionError" ->
         WriteBookings("tour_leave", u, cancel_booking(bookings, booking),
           "PromotionError", None)
    [] TourLeaveOutcome(u, booking) = "Promoted" ->
         WriteBookings("tour_leave", u,
           update_booking_status(cancel_booking(bookings, booking),
                                 NextWait(booking), "active"),
           "Promoted", bookings[NextWait(booking)].user_id)
    [] OTHER -> Reject

cb_tour_leave(u) ==
  \E booking \in get_user_booking_any(bookings, u, "tournament", TournamentId) :
    tour_leave_from(u, booking)

\* mutant: the message goes to the user of the oldest row of the table
promoted_recipient_first(bk, next_wait) == bk[1].user_id

\* cb_tour_leave: the chat the waitlist-promoted message is addressed to,
\* next_wait["user_id"]
promoted_recipient(bk, next_wait) == bk[next_wait].user_id

\* cb_tour_leave with the message it sends: after a promotion one send_message
\* to the promoted row's user, which Telegram delivers or refuses; a refusal is
\* swallowed by the except clause after both store writes were committed
cb_tour_leave_send(u) ==
  \E booking \in get_user_booking_any(bookings, u, "tournament", TournamentId) :
    /\ tour_leave_from(u, booking)
    /\ IF TourLeaveOutcome(u, booking) = "Promoted"
       THEN \E delivered \in BOOLEAN :
              outbox' = Append(outbox,
                               [to |-> promoted_recipient(bookings, NextWait(booking)),
                                delivered |-> delivered])
       ELSE outbox' = outbox

\* cb_admin_tournament_settings_waitlist_delta pressed by a with action "inc"
\* or "dec": waitlist_limit + 1, or max(0, waitlist_limit - 1); the bookings
\* already Waitlisted are not touched
cb_admin_tournament_settings_waitlist_delta(a, action) ==
  LET val == tournaments[TournamentId].waitlist_limit
      new == IF action = "inc" THEN val + 1 ELSE IF val - 1 > 0 THEN val - 1 ELSE 0
  IN  IF a # AdminId \/ TournamentId \notin DOMAIN tournaments THEN Reject
      ELSE /\ new <= MaxWaitlist + 1
           /\ tournaments' = [tournaments EXCEPT ![TournamentId].waitlist_limit = new]
           /\ UNCHANGED <<users, training_slots, group_settings, tournament_groups,
                          bookings, payments, now, last, procs>>

\* cb_admin_tournament_settings_capacity_delta pressed by a with action "inc"
\* or "dec": capacity + 1, or max(1, capacity - 1); a caller who is no
\* administrator is turned away, a missing tournament ends the handler
cb_admin_tournament_settings_capacity_delta(a, action) ==
  LET val == tournaments[TournamentId].capacity
      new == IF action = "inc" THEN val + 1 ELSE IF val - 1 > 1 THEN val - 1 ELSE 1
  IN  IF a # AdminId \/ TournamentId \notin DOMAIN tournaments THEN Reject
      ELSE /\ new <= MaxCapacity + 1
           /\ tournaments' = [tournaments EXCEPT ![TournamentId].capacity = new]
           /\ UNCHANGED <<users, training_slots, group_settings, tournament_groups,
                          bookings, payments, now, last, procs>>

\* ------------------------------------------------------------------ the clock
AdvanceClock ==
  /\ \E t \in TimePoints : t > now /\ now' = t
  /\ UNCHANGED <<users, config, bookings, payments, last, procs>>

\* ------------------------------------------------------------- initial state
InitUsers ==
  [k \in Callers |->
     [group_id |-> IF k = OutsiderId THEN OtherGroupId ELSE GroupId, notify_open |-> 0]]

InitSettings ==
  [open_days_before |-> DefaultOpenDaysBefore, open_time |-> <<10, 0>>,
   close_mode |-> "minutes_before", close_minutes_before |-> CloseMinutesBefore,
   cancel_minutes_before |-> DefaultCancelMinutesBefore]

\* the notification task between two scans: since = the now of the scan
\* it sleeps after (None when the task has just been created)
NoScan ==
  [pc |-> "idle", now |-> None, since |-> None, users |-> {}, notified |-> {},
   booked |-> {}, uid |-> None]

\* a handler slot no invocation occupies
Idle ==
  [pc |-> "idle", op |-> "none", user |-> None, booked |-> None, waitlist_count |-> None,
   booking |-> None, status |-> "none", seats |-> None, token |-> None]

\* no round trip is being observed
NoRoundTrip == [phase |-> 0, user |-> None, entity |-> <<"none", None>>, free |-> 0, waiting |-> 0]

\* DB.create_slot: the row of a slot created with capacity c
NewSlot(c) ==
  [group_id |-> GroupId, starts_at |-> StartsAt, capacity |-> c, is_active |-> 1]

\* DB.create_tournament: the row of a tournament created with capacity c and
\* waitlist limit w; close and cancel rules are copied from the group settings
NewTournament(c, w) ==
  [starts_at |-> StartsAt, capacity |-> c, waitlist_limit |-> w,
   close_mode |-> InitSettings.close_mode,
   close_minutes_before |-> InitSettings.close_minutes_before,
   cancel_minutes_before |-> InitSettings.cancel_minutes_before,
   is_active |-> 1]

\* The database holds one bookable entity: a training slot or a tournament.
Init ==
  /\ users = InitUsers
  /\ group_settings = (GroupId :> InitSettings)
  /\ \/ /\ \E c \in 1..MaxCapacity : training_slots = (SlotId :> NewSlot(c))
        /\ tournaments = <<>>
        /\ tournament_groups = {}
     \/ /\ training_slots = <<>>
        /\ \E c \in 1..MaxCapacity, w \in 0..MaxWaitlist :
             tournaments = (TournamentId :> NewTournament(c, w))
        /\ tournament_groups = {<<TournamentId, GroupId>>}
  /\ bookings = <<>>
  /\ payments = <<>>
  /\ now = Earliest(TimePoints)
  /\ last = Answer("none", None, "none", None)
  /\ procs = [p \in 1..NumProcs |-> Idle]
  /\ rt = NoRoundTrip
  /\ buttons = {}
  /\ notify_open_log = {}
  /\ sent = <<>>
  /\ scan = NoScan
  /\ outbox = <<>>
  /\ admin_invites = <<>>
  /\ admins = {}

TrainJoin == \E u \in Callers : cb_train_join(u) /\ UNCHANGED <<rt, others>>
TrainJoinSecond == \E u \in Callers : cb_train_join_second(u) /\ UNCHANGED <<rt, others>>
TrainLeave == \E u \in Callers : cb_train_leave(u) /\ UNCHANGED <<rt, others>>
AdminBook == \E name \in GuestNames : admin_training_book(AdminId, name) /\ UNCHANGED <<rt, others>>
TourJoin == \E u \in Callers : cb_tour_join(u) /\ UNCHANGED <<rt, others>>
TourJoinSecond == \E u \in Callers : cb_tour_join_second(u) /\ UNCHANGED <<rt, others>>
TourLeave == \E u \in Callers : cb_tour_leave(u) /\ UNCHANGED <<rt, others>>
Tick == AdvanceClock /\ UNCHANGED <<rt, others>>

Next ==
  \/ TrainJoin
  \/ TrainJoinSecond
  \/ TrainLeave
  \/ AdminBook
  \/ TourJoin
  \/ TourJoinSecond
  \/ TourLeave
  \/ Tick

\* Handler calls that do not overlap: each runs to its end before the next
Spec == Init /\ [][Next]_vars


\* ------------------------------------------------ overlapping join handlers
\* Every `await db.<call>` of a handler is a store transaction of its own;
\* between two of them the event loop may run any other handler.
SetProc(p, r) == procs' = [procs EXCEPT ![p] = r]

\* cb_train_join from its start to the clock checks (slot, user and settings
\* rows do not change); an invocation that is rejected here ends at once
TrainJoinBegin(p, u) ==
  /\ procs[p].pc = "idle"
  /\ SlotId \in DOMAIN training_slots
  /\ u \in DOMAIN users /\ users[u].group_id = training_slots[SlotId].group_id
  /\ now >= SlotOpen /\ now < SlotClose
  /\ SetProc(p, [Idle EXCEPT !.pc = "count", !.op = "train_join", !.user = u])
  /\ UNCHANGED <<users, config, bookings, payments, now, last>>

\* booked = await db.count_active_bookings(...), and the Full answer
TrainJoinCount(p) ==
  /\ procs[p].pc = "count" /\ procs[p].op = "train_join"
  /\ LET booked == count_active_bookings(bookings, "training", SlotId)
     IN  SetProc(p, IF booked >= training_slots[SlotId].capacity THEN Idle
                    ELSE [procs[p] EXCEPT !.pc = "existing", !.booked = booked])
  /\ UNCHANGED <<users, config, bookings, payments, now, last>>

\* existing = await db.get_user_booking(...), and the AlreadyEnrolled answer
TrainJoinExisting(p) ==
  /\ procs[p].pc = "existing" /\ procs[p].op = "train_join"
  /\ SetProc(p, IF get_user_booking(bookings, procs[p].user, "training", SlotId) # None
                THEN Idle ELSE [procs[p] EXCEPT !.pc = "create"])
  /\ UNCHANGED <<users, config, bookings, payments, now, last>>

\* await db.create_booking(user, "training", slot_id)
TrainJoinCreate(p) ==
  /\ procs[p].pc = "create" /\ procs[p].op = "train_join"
  /\ SetProc(p, Idle)
  /\ IF CreateFails(bookings, procs[p].user, "training", SlotId, "active")
     THEN UNCHANGED <<users, config, bookings, payments, now, last>>
     ELSE StoreInsert("train_join", procs[p].user, "training", SlotId, "active", "Joined")

\* cb_tour_join from its start to the clock check
TourJoinBegin(p, u) ==
  /\ procs[p].pc = "idle"
  /\ TournamentId \in DOMAIN tournaments
  /\ TourGroupOk(u)
  /\ now < TourClose
  /\ SetProc(p, [Idle EXCEPT !.pc = "existing", !.op = "tour_join", !.user = u])
  /\ UNCHANGED <<users, config, bookings, payments, now, last>>

\* existing = await db.get_user_booking_any(...), and the AlreadyEnrolled answer
TourJoinExisting(p) ==
  /\ procs[p].pc = "existing" /\ procs[p].op = "tour_join"
  /\ SetProc(p, IF get_user_booking_any(bookings, procs[p].user, "tournament",
                                        TournamentId) # {None}
                THEN Idle ELSE [procs[p] EXCEPT !.pc = "count"])
  /\ UNCHANGED <<users, config, bookings, payments, now, last>>

\* booked = await db.count_active_bookings(...)
TourJoinCount(p) ==
  /\ procs[p].pc = "count" /\ procs[p].op = "tour_join"
  /\ SetProc(p, [procs[p] EXCEPT !.pc = "wcount",
         !.booked = count_active_bookings(bookings, "tournament", TournamentId)])
  /\ UNCHANGED <<users, config, bookings, payments, now, last>>

\* waitlist_count = await db.count_bookings(..., "waitlist"), and the Full answer
TourJoinWaitCount(p) ==
  /\ procs[p].pc = "wcount" /\ procs[p].op = "tour_join"
  /\ LET t == tournaments[TournamentId]
         waitlist_count == count_bookings(bookings, "tournament", TournamentId, "waitlist")
     IN  SetProc(p, IF \/ procs[p].booked < t.capacity
                       \/ (t.waitlist_limit > 0 /\ waitlist_count < t.waitlist_limit)
                    THEN [procs[p] EXCEPT !.pc = "create", !.waitlist_count = waitlist_count]
                    ELSE Idle)
  /\ UNCHANGED <<users, config, bookings, payments, now, last>>

\* await db.create_booking(user, "tournament", tournament_id, status=...)
TourJoinCreate(p) ==
  /\ procs[p].pc = "create" /\ procs[p].op = "tour_join"
  /\ SetProc(p, Idle)
  /\ LET st == IF procs[p].booked < tournaments[TournamentId].capacity
               THEN "active" ELSE "waitlist"
     IN  IF CreateFails(bookings, procs[p].user, "tournament", TournamentId, st)
         THEN UNCHANGED <<users, config, bookings, payments, now, last>>
         ELSE StoreInsert("tour_join", procs[p].user, "tournament", TournamentId, st,
                          IF st = "active" THEN "Joined" ELSE "Waitlisted")

Procs == 1..NumProcs

ConcTrainJoinBegin == \E p \in Procs, u \in Members : TrainJoinBegin(p, u) /\ UNCHANGED <<rt, others>>
ConcTrainJoinCount == \E p \in Procs : TrainJoinCount(p) /\ UNCHANGED <<rt, others>>
ConcTrainJoinExisting == \E p \in Procs : TrainJoinExisting(p) /\ UNCHANGED <<rt, others>>
ConcTrainJoinCreate == \E p \in Procs : TrainJoinCreate(p) /\ UNCHANGED <<rt, others>>
ConcTourJoinBegin == \E p \in Procs, u \in Members : TourJoinBegin(p, u) /\ UNCHANGED <<rt, others>>
ConcTourJoinExisting == \E p \in Procs : TourJoinExisting(p) /\ UNCHANGED <<rt, others>>
ConcTourJoinCount == \E p \in Procs : TourJoinCount(p) /\ UNCHANGED <<rt, others>>
ConcTourJoinWaitCount == \E p \in Procs : TourJoinWaitCount(p) /\ UNCHANGED <<rt, others>>
ConcTourJoinCreate == \E p \in Procs : TourJoinCreate(p) /\ UNCHANGED <<rt, others>>

ConcNext ==
  \/ ConcTrainJoinBegin
  \/ ConcTrainJoinCount
  \/ ConcTrainJoinExisting
  \/ ConcTrainJoinCreate
  \/ ConcTourJoinBegin
  \/ ConcTourJoinExisting
  \/ ConcTourJoinCount
  \/ ConcTourJoinWaitCount
  \/ ConcTourJoinCreate
  \/ Tick

\* Join handlers whose store transactions interleave
ConcSpec == Init /\ [][ConcNext]_vars


\* ------------------------------------------------------------ claim vocabulary
\* the bookable entities the database holds, as <<entity_type, entity_id>>
Entities ==
  {<<"training", i>> : i \in DOMAIN training_slots}
  \cup {<<"tournament", i>> : i \in DOMAIN tournaments}

CapacityOf(e) ==
  IF e[1] = "training" THEN training_slots[e[2]].capacity ELSE tournaments[e[2]].capacity

WaitlistLimitOf(e) ==
  IF e[1] = "tournament" THEN tournaments[e[2]].waitlist_limit ELSE 0

ActiveRows(bk, e) == RowsOf(bk, e[1], e[2], "active")
WaitlistedRows(bk, e) == RowsOf(bk, e[1], e[2], "waitlist")
ActiveSeatCount(bk, e) == SumSeats(bk, ActiveRows(bk, e))
FreeSeats(bk, e) == CapacityOf(e) - ActiveSeatCount(bk, e)

\* the Active-or-Waitlisted rows of user u on entity e
LiveRows(bk, u, e) ==
  {i \in ActiveRows(bk, e) \cup WaitlistedRows(bk, e) : bk[i].user_id = u}

Tour == <<"tournament", TournamentId>>
Slot == <<"training", SlotId>>

\* ------------------------------------------------------------------------ C1
\* C1: with handler calls that do not overlap and the capacity unchanged, the
\* seats of the Active bookings of an entity never sum to more than its capacity.
C1_CapacityInvariant ==
  \A e \in Entities : ActiveSeatCount(bookings, e) <= CapacityOf(e)

\* a second seat has just been taken and filled the entity: every seat is
\* held, fewer Active bookings than seats
C1_Witness ==
  /\ last.outcome = "SecondSeat"
  /\ \E e \in Entities :
       /\ ActiveSeatCount(bookings, e) = CapacityOf(e)
       /\ Cardinality(ActiveRows(bookings, e)) < CapacityOf(e)

\* ------------------------------------------------------------------------ C2
\* C2: when Join calls of different users overlap, the entity never has more
\* Active bookings than seats (two joins racing for the last seat do not both
\* end Active).
C2_NoDoubleJoin ==
  \A e \in Entities : Cardinality(ActiveRows(bookings, e)) <= CapacityOf(e)

\* ------------------------------------------------------------------------ C3
\* C3: every (user, entity) pair has at most one Active-or-Waitlisted booking.
C3_OneLiveBooking ==
  \A u \in DOMAIN users : \A e \in Entities : Cardinality(LiveRows(bookings, u, e)) <= 1

\* ------------------------------------------------------------------------ C4
\* C4: a booking that goes from Waitlisted to Active is the oldest Waitlisted
\* booking of its entity: no booking is promoted while an older one waits.
C4_WaitlistFIFO ==
  [][\A b \in DOMAIN bookings :
       (bookings[b].status = "waitlist" /\ bookings'[b].status = "active") =>
         \A a \in DOMAIN bookings :
           (/\ bookings[a].status = "waitlist"
            /\ bookings[a].entity_type = bookings[b].entity_type
            /\ bookings[a].entity_id = bookings[b].entity_id)
           => bookings[b].created_at <= bookings[a].created_at]_vars

\* a Leave has promoted a booking while a younger waitlisted booking stays behind
C4_Witness ==
  /\ last.op = "tour_leave" /\ last.outcome = "Promoted"
  /\ \E b \in ActiveRows(bookings, Tour) : \E a \in WaitlistedRows(bookings, Tour) :
       /\ bookings[b].user_id = last.promoted
       /\ bookings[b].created_at < bookings[a].created_at
       /\ bookings[a].user_id # last.promoted

\* ------------------------------------------------------------------------ C5
\* C5: the number of Waitlisted bookings of an entity never exceeds its
\* waitlist limit (handler calls not overlapping, limit unchanged).
C5_WaitlistBound ==
  \A e \in Entities : Cardinality(WaitlistedRows(bookings, e)) <= WaitlistLimitOf(e)

\* a Join has just filled the waitlist of a tournament up to its limit
C5_Witness ==
  /\ last.op = "tour_join" /\ last.outcome = "Waitlisted"
  /\ Cardinality(WaitlistedRows(bookings, Tour)) = WaitlistLimitOf(Tour)
  /\ WaitlistLimitOf(Tour) > 1

\* ------------------------------------------------------------------------ C6
\* the waitlisted row of entity e that has waited longest (None if none)
OldestWaiting(bk, e) ==
  LET W == WaitlistedRows(bk, e)
  IN  IF W = {} THEN None
      ELSE CHOOSE i \in W : \A j \in W : bk[i].created_at <= bk[j].created_at

\* C6: when a user holding an Active booking with one seat leaves a tournament
\* whose waitlist is not empty (and cancelling is still allowed), the leaver's
\* booking ends Cancelled, the oldest Waitlisted booking ends Active, and the
\* Active seat count of the tournament is unchanged.
C6_LeavePromotes ==
  [][\A u \in Members : \A b \in DOMAIN bookings :
       (/\ cb_tour_leave(u)
        /\ b \in ActiveRows(bookings, Tour) /\ bookings[b].user_id = u
        /\ bookings[b].seats = 1
        /\ WaitlistedRows(bookings, Tour) # {}
        /\ now < TourCancel)
       => /\ bookings'[b].status = "cancelled"
          /\ bookings'[OldestWaiting(bookings, Tour)].status = "active"
          /\ ActiveSeatCount(bookings', Tour) = ActiveSeatCount(bookings, Tour)]_vars

\* ------------------------------------------------------------------------ C7
\* C7: inside the enrollment window, Join by a user who already holds an Active
\* or Waitlisted booking on the entity is answered AlreadyEnrolled, also when
\* the entity is full.
C7_AlreadyEnrolled ==
  \A u \in Members :
    /\ (/\ SlotId \in DOMAIN training_slots
        /\ LiveRows(bookings, u, Slot) # {}
        /\ SlotOpen <= now /\ now < SlotClose)
       => TrainJoinOutcome(u) = "AlreadyEnrolled"
    /\ (/\ TournamentId \in DOMAIN tournaments
        /\ LiveRows(bookings, u, Tour) # {}
        /\ now < TourClose)
       => TourJoinOutcome(u) = "AlreadyEnrolled"

\* ------------------------------------------------------------------------ C8
\* the caller is a registered user of a group the entity is offered to
InGroupOf(u, e) ==
  /\ u \in DOMAIN users
  /\ IF e[1] = "training" THEN users[u].group_id = training_slots[e[2]].group_id
     ELSE \E g \in tournament_groups : g[1] = e[2] /\ g[2] = users[u].group_id

\* the time gates of Join for the callers in U, with Ok the answers allowed at
\* the open instant
JoinGates(U, Ok) ==
  /\ SlotId \in DOMAIN training_slots =>
       \A u \in U :
         /\ now < SlotOpen => TrainJoinOutcome(u) = "TooEarly"
         /\ now >= SlotClose => TrainJoinOutcome(u) = "Closed"
         /\ now = SlotOpen => TrainJoinOutcome(u) \in Ok
  /\ TournamentId \in DOMAIN tournaments =>
       \A u \in U :
         /\ now >= TourClose => TourJoinOutcome(u) = "Closed"
         /\ TourJoinOutcome(u) # "TooEarly"

C9_SecondSeatOnly ==
  [][\A u \in Callers : \A e \in Entities :
       (/\ IF e[1] = "training" THEN cb_train_join_second(u)
                                ELSE cb_tour_join_second(u)
        /\ bookings' # bookings)
       => /\ Len(bookings') = Len(bookings)
          /\ FreeSeats(bookings, e) >= 1
          /\ \E b \in ActiveRows(bookings, e) :
               /\ bookings[b].user_id = u /\ bookings[b].seats = 1
               /\ bookings' = [bookings EXCEPT ![b].seats = 2]]_vars

\* ----------------------------------------------------------------------- C10
\* the join and cancel windows of entity e are both open
InWindows(e) ==
  IF e[1] = "training" THEN SlotOpen <= now /\ now < SlotCancel /\ now < SlotClose
  ELSE now < TourCancel /\ now < TourClose

\* a user of the entity's group with no Active or Waitlisted booking on it
\* starts the sequence while at least two seats are free; the observer keeps
\* the free-seat count and the number of Waitlisted bookings of that moment
RTBegin ==
  /\ rt.phase = 0
  /\ \E u \in Members : \E e \in Entities :
       /\ InGroupOf(u, e)
       /\ LiveRows(bookings, u, e) = {}
       /\ FreeSeats(bookings, e) >= 2
       /\ InWindows(e)
       /\ rt' = [phase |-> 1, user |-> u, entity |-> e,
                 free |-> FreeSeats(bookings, e),
                 waiting |-> Cardinality(WaitlistedRows(bookings, e))]
  /\ UNCHANGED <<prog, others>>

\* the four calls of the sequence, each the whole handler, nothing in between
RTJoin ==
  /\ rt.phase = 1
  /\ IF rt.entity[1] = "training" THEN cb_train_join(rt.user) ELSE cb_tour_join(rt.user)
  /\ rt' = [rt EXCEPT !.phase = 2]
  /\ UNCHANGED others

RTJoinSecond ==
  /\ rt.phase = 2
  /\ IF rt.entity[1] = "training" THEN cb_train_join_second(rt.user) ELSE cb_tour_join_second(rt.user)
  /\ rt' = [rt EXCEPT !.phase = 3]
  /\ UNCHANGED others

RTLeave ==
  /\ rt.phase = 3
  /\ IF rt.entity[1] = "training" THEN cb_train_leave(rt.user) ELSE cb_tour_leave(rt.user)
  /\ rt' = [rt EXCEPT !.phase = 4]
  /\ UNCHANGED others

RTLeaveAgain ==
  /\ rt.phase = 4
  /\ IF rt.entity[1] = "training" THEN cb_train_leave(rt.user) ELSE cb_tour_leave(rt.user)
  /\ rt' = [rt EXCEPT !.phase = 5]
  /\ UNCHANGED others

\* the administrator changes the capacity of the tournament
CapacityDelta ==
  /\ \E a \in Callers : \E action \in {"inc", "dec"} :
       cb_admin_tournament_settings_capacity_delta(a, action)
  /\ UNCHANGED <<rt, others>>

BeforeTrainJoin == rt.phase = 0 /\ TrainJoin
BeforeTrainJoinSecond == rt.phase = 0 /\ TrainJoinSecond
BeforeTrainLeave == rt.phase = 0 /\ TrainLeave
BeforeAdminBook == rt.phase = 0 /\ AdminBook
BeforeTourJoin == rt.phase = 0 /\ TourJoin
BeforeTourJoinSecond == rt.phase = 0 /\ TourJoinSecond
BeforeTourLeave == rt.phase = 0 /\ TourLeave
BeforeCapacityDelta == rt.phase = 0 /\ CapacityDelta
BeforeTick == rt.phase = 0 /\ Tick

RTNext ==
  \/ BeforeTrainJoin
  \/ BeforeTrainJoinSecond
  \/ BeforeTrainLeave
  \/ BeforeAdminBook
  \/ BeforeTourJoin
  \/ BeforeTourJoinSecond
  \/ BeforeTourLeave
  \/ BeforeCapacityDelta
  \/ BeforeTick
  \/ RTBegin
  \/ RTJoin
  \/ RTJoinSecond
  \/ RTLeave
  \/ RTLeaveAgain

\* Any run of non-overlapping handler calls, capacity changes included, then
\* one user's Join, JoinSecondSeat, Leave, Leave with nothing in between
RTSpec == Init /\ [][RTNext]_vars

\* the sequence is over: the free-seat count is the one it started from and the
\* booking the user's Join created is Cancelled
RoundTripRestored ==
  /\ FreeSeats(bookings, rt.entity) = rt.free
  /\ LiveRows(bookings, rt.user, rt.entity) = {}
  /\ \E b \in DOMAIN bookings :
       /\ bookings[b].user_id = rt.user /\ bookings[b].status = "cancelled"
       /\ bookings[b].entity_type = rt.entity[1] /\ bookings[b].entity_id = rt.entity[2]
       /\ \A c \in DOMAIN bookings : bookings[c].user_id = rt.user => c <= b

\* C10 as stated: from any state where the user has no booking and at least
\* two seats are free, Join, JoinSecondSeat, Leave, Leave by that user inside
\* the windows leaves the free-seat count as it was and the booking Cancelled.
C10_RoundTripAlways == rt.phase = 5 => RoundTripRestored

\* C10, amended: the same, provided no booking of the entity is Waitlisted when
\* the sequence starts.
C10_RoundTrip == (rt.phase = 5 /\ rt.waiting = 0) => RoundTripRestored

\* a round trip on a tournament nobody waits for has just ended with the
\* second Leave cancelling the booking
C10_Witness ==
  /\ rt.phase = 5 /\ rt.waiting = 0
  /\ rt.entity = Tour
  /\ last.op = "tour_leave" /\ last.user = rt.user /\ last.outcome = "Cancelled"

\* ----------------------------------------------------------------------- C11
\* all rows of user u on entity e, whatever their status
RowsOfUser(bk, u, e) ==
  {i \in DOMAIN bk : bk[i].user_id = u /\ bk[i].entity_type = e[1] /\ bk[i].entity_id = e[2]}

\* user u has booked entity e before and every such booking is Cancelled
OnlyCancelled(bk, u, e) ==
  /\ RowsOfUser(bk, u, e) # {}
  /\ \A i \in RowsOfUser(bk, u, e) : bk[i].status = "cancelled"

\* C11: Leave by a user whose only bookings on the entity are Cancelled is
\* answered NotEnrolled and changes no booking, and cancelling a Cancelled
\* booking in the store leaves the store as it is.
C11_IdempotentLeave ==
  /\ [](/\ \A u \in Callers :
            /\ (SlotId \in DOMAIN training_slots /\ OnlyCancelled(bookings, u, Slot))
               => TrainLeaveOutcome(u) = "NotEnrolled"
            /\ (TournamentId \in DOMAIN tournaments /\ OnlyCancelled(bookings, u, Tour))
               => \A booking \in get_user_booking_any(bookings, u, "tournament", TournamentId) :
                    TourLeaveOutcome(u, booking) = "NotEnrolled"
        /\ \A b \in DOMAIN bookings :
             bookings[b].status = "cancelled" => cancel_booking(bookings, b) = bookings)
  /\ [][\A u \in Callers : \A e \in Entities :
          (/\ OnlyCancelled(bookings, u, e)
           /\ IF e[1] = "training" THEN cb_train_leave(u) ELSE cb_tour_leave(u))
          => bookings' = bookings /\ payments' = payments]_vars

\* a Leave has just cancelled the user's booking on a training slot, inside the
\* cancel window: the same user's next Leave finds only the Cancelled booking
C11_Witness ==
  /\ last.op = "train_leave" /\ last.outcome = "Cancelled"
  /\ OnlyCancelled(bookings, last.user, Slot)
  /\ now < SlotCancel
  /\ TrainLeaveOutcome(last.user) = "NotEnrolled"

\* ----------------------------------------------------------------------- C12
\* what Leave answers to user u on entity e: the set of possible answers (the
\* tournament handler's lookup may return any of the user's live rows)
LeaveOutcomes(u, e) ==
  IF e[1] = "training" THEN {TrainLeaveOutcome(u)}
  ELSE {TourLeaveOutcome(u, booking) :
          booking \in get_user_booking_any(bookings, u, "tournament", TournamentId)}

CancelDeadline(e) == IF e[1] = "training" THEN SlotCancel ELSE TourCancel

\* C12: at any now >= cancelDeadline, Leave by a user holding an Active or
\* Waitlisted booking is answered CancelWindowClosed and leaves every booking's
\* status and seats as they were; Leave by a user with no such booking is
\* answered NotEnrolled.
C12_CancelWindow ==
  /\ [](\A u \in Callers : \A e \in Entities :
          now >= CancelDeadline(e) =>
            LeaveOutcomes(u, e) =
              IF LiveRows(bookings, u, e) # {} THEN {"CancelWindowClosed"}
              ELSE {"NotEnrolled"})
  /\ [][\A u \in Callers : \A e \in Entities :
          (/\ now >= CancelDeadline(e)
           /\ IF e[1] = "training" THEN cb_train_leave(u) ELSE cb_tour_leave(u))
          => bookings' = bookings]_vars

\* the cancel deadline of a training slot has been reached while one user holds
\* an Active booking with two seats and another user holds none
C12_Witness ==
  /\ SlotId \in DOMAIN training_slots
  /\ now = SlotCancel
  /\ \E u \in Members : \E v \in Members :
       /\ \E b \in LiveRows(bookings, u, Slot) : bookings[b].seats = 2
       /\ TrainLeaveOutcome(u) = "CancelWindowClosed"
       /\ LiveRows(bookings, v, Slot) = {}
       /\ TrainLeaveOutcome(v) = "NotEnrolled"

\* ----------------------------------------------------------------------- C13
\* the enrollment window of entity e is open
InJoinWindow(e) ==
  IF e[1] = "training" THEN SlotOpen <= now /\ now < SlotClose ELSE now < TourClose

JoinOutcome(u, e) == IF e[1] = "training" THEN TrainJoinOutcome(u) ELSE TourJoinOutcome(u)

\* what the capacity step of Join has to answer on entity e
ExpectedJoin(e) ==
  IF ActiveSeatCount(bookings, e) < CapacityOf(e) THEN "Joined"
  ELSE IF /\ WaitlistLimitOf(e) > 0
          /\ Cardinality(WaitlistedRows(bookings, e)) < WaitlistLimitOf(e)
    THEN "Waitlisted"
  ELSE "Full"

\* bk2 is bk with one more row: a one-seat booking of user u on e in status st
AddsBooking(bk, bk2, u, e, st) ==
  /\ Len(bk2) = Len(bk) + 1
  /\ SubSeq(bk2, 1, Len(bk)) = bk
  /\ bk2[Len(bk2)].user_id = u
  /\ bk2[Len(bk2)].entity_type = e[1] /\ bk2[Len(bk2)].entity_id = e[2]
  /\ bk2[Len(bk2)].status = st
  /\ bk2[Len(bk2)].seats = 1

\* C13: a Join that passes the group, time and already-enrolled checks creates
\* an Active one-seat booking when the active seat count is below capacity,
\* else a Waitlisted booking when the entity has a waitlist limit above zero and
\* room under it, else answers Full and creates no booking.
C13_JoinCapacityStep ==
  /\ [](\A u \in Callers : \A e \in Entities :
          (InGroupOf(u, e) /\ InJoinWindow(e) /\ LiveRows(bookings, u, e) = {})
          => JoinOutcome(u, e) = ExpectedJoin(e))
  /\ [][\A u \in Callers : \A e \in Entities :
          (/\ InGroupOf(u, e) /\ InJoinWindow(e) /\ LiveRows(bookings, u, e) = {}
           /\ IF e[1] = "training" THEN cb_train_join(u) ELSE cb_tour_join(u))
          => CASE ExpectedJoin(e) = "Joined" -> AddsBooking(bookings, bookings', u, e, "active")
               [] ExpectedJoin(e) = "Waitlisted" -> AddsBooking(bookings, bookings', u, e, "waitlist")
               [] OTHER -> bookings' = bookings]_vars

\* a Join has just taken the last place on the waitlist of a full tournament,
\* so the next user to join is told Full
C13_Witness ==
  /\ last.op = "tour_join" /\ last.outcome = "Waitlisted"
  /\ \E u \in Members :
       /\ LiveRows(bookings, u, Tour) = {}
       /\ InJoinWindow(Tour)
       /\ ExpectedJoin(Tour) = "Full"
       /\ TourJoinOutcome(u) = "Full"

\* ----------------------------------------------------------------------- C14
\* what AdminBook has to answer on the training slot
ExpectedAdminBook ==
  IF ActiveSeatCount(bookings, Slot) < CapacityOf(Slot) THEN "Joined" ELSE "Full"

\* AdminBook with a text from Names answers by the capacity check alone
AdminBookAnswers(Names) ==
  SlotId \in DOMAIN training_slots =>
    \A name \in Names : AdminBookOutcome(name) = ExpectedAdminBook

\* C14 as stated: AdminBook on an existing training slot, at any now, creates
\* an Active one-seat booking for a new guest user exactly when the active seat
\* count is below capacity, and otherwise answers Full.
C14_AdminBookAnyText == AdminBookAnswers(GuestNames)

\* C14, amended: AdminBook with a non-empty guest name on an existing training
\* slot, at any now, creates an Active one-seat booking for a newly created
\* guest user exactly when the active seat count is below capacity; otherwise
\* it answers Full and creates neither a booking nor a guest user.
C14_AdminBook ==
  /\ [](AdminBookAnswers(GuestNames \ {""}))
  /\ [][\A name \in GuestNames \ {""} :
          (SlotId \in DOMAIN training_slots /\ admin_training_book(AdminId, name))
          => IF ExpectedAdminBook = "Joined"
             THEN \E g \in DOMAIN users' \ DOMAIN users :
                    /\ DOMAIN users' = DOMAIN users \cup {g}
                    /\ AddsBooking(bookings, bookings', g, Slot, "active")
             ELSE bookings' = bookings /\ users' = users]_vars

\* the administrator has booked a guest before the open instant of the slot,
\* and the slot is full now
C14_Witness ==
  /\ last.op = "admin_book" /\ last.outcome = "Joined"
  /\ now < SlotOpen
  /\ last.user \in DOMAIN users
  /\ \E b \in ActiveRows(bookings, Slot) : bookings[b].user_id = last.user
  /\ ExpectedAdminBook = "Full"

\* ----------------------------------------------------------------------- C15
\* start_handler for Telegram user u with deep-link payload `invite`: the user
\* is upserted; an active group invite (the group it resolves to, None for a
\* missing payload or a dead token) puts the user into that group
start_handler(u, invite) ==
  /\ users' = IF invite = None THEN upsert_user(users, u)
              ELSE set_user_group(upsert_user(users, u), u, invite)
  /\ UNCHANGED <<config, bookings, payments, now, last, procs>>

\* Telegram users who may write to the bot: the registered ones and newcomers
TelegramIds == 1..(NumUsers + MaxNewcomers + 1)

Start ==
  /\ \E u \in TelegramIds : \E invite \in {None, GroupId} : start_handler(u, invite)
  /\ UNCHANGED <<rt, others>>

\* DB.create_guest_user on its own, as admin_training_book calls it
CreateGuest ==
  /\ Cardinality({k \in DOMAIN users : k < 0}) < MaxGuestRows
  /\ users' = create_guest_user(users, None)
  /\ UNCHANGED <<config, bookings, payments, now, last, procs, rt, others>>

UsersNext ==
  \/ Start
  \/ CreateGuest

\* User registrations and guest creations in any order
UsersSpec == Init /\ [][UsersNext]_vars

\* C15: the identifier guest creation returns is negative and differs from the
\* identifier of every user existing at that moment, after any sequence of
\* user registrations and guest creations; the creation adds exactly that user.
C15_GuestIdFresh ==
  /\ [](new_guest_id(users) < 0 /\ new_guest_id(users) \notin DOMAIN users)
  /\ [][CreateGuest =>
          \E g \in DOMAIN users' :
            /\ g < 0 /\ g \notin DOMAIN users
            /\ DOMAIN users' = DOMAIN users \cup {g}
            /\ \A k \in DOMAIN users : users'[k] = users[k]]_vars

\* guest creation has run MaxGuestRows times, the guests hold the identifiers
\* -1 down to -MaxGuestRows, and a newcomer has registered as well
C15_Witness ==
  /\ Cardinality({k \in DOMAIN users : k < 0}) = MaxGuestRows
  /\ \E u \in DOMAIN users : u > NumUsers + 1
  /\ \A g \in DOMAIN users : g < 0 => g >= 0 - MaxGuestRows

\* ----------------------------------------------------------------------- C16
\* the administrator changes the waitlist limit of the tournament
WaitlistDelta ==
  /\ \E a \in Callers : \E action \in {"inc", "dec"} :
       cb_admin_tournament_settings_waitlist_delta(a, action)
  /\ UNCHANGED <<rt, others>>

AdminNext ==
  \/ TrainJoin
  \/ TrainJoinSecond
  \/ TrainLeave
  \/ AdminBook
  \/ TourJoin
  \/ TourJoinSecond
  \/ TourLeave
  \/ CapacityDelta
  \/ WaitlistDelta
  \/ Tick

\* Handler calls that do not overlap, the administrator's changes of capacity
\* and waitlist limit among them
AdminSpec == Init /\ [][AdminNext]_vars

\* C16: a Waitlisted booking exists only on an entity whose waitlist limit is
\* above zero; a training slot (which has no waitlist) never holds one.
C16_WaitlistOnlyWhereSupported ==
  \A e \in Entities : WaitlistedRows(bookings, e) # {} => WaitlistLimitOf(e) > 0

\* ----------------------------------------------------------------------- C17
\* cb_train_leave / cb_tour_leave from the start to the cancel-deadline check:
\* the booking row is read here, later steps use the status and seats read
LeaveBegin(p, u, e) ==
  /\ procs[p].pc = "idle"
  /\ now < (IF e[1] = "training" THEN SlotCancel ELSE TourCancel)
  /\ \E booking \in (IF e[1] = "training"
                     THEN {get_user_booking(bookings, u, "training", SlotId)}
                     ELSE get_user_booking_any(bookings, u, "tournament", TournamentId)) :
       /\ booking # None
       /\ SetProc(p, [Idle EXCEPT !.pc = "leave_write", !.user = u,
                        !.op = IF e[1] = "training" THEN "train_leave" ELSE "tour_leave",
                        !.booking = booking, !.status = bookings[booking].status,
                        !.seats = bookings[booking].seats])
  /\ UNCHANGED <<users, config, bookings, payments, now, last>>

\* update_booking_seats or cancel_booking of the row that was read
LeaveWrite(p) ==
  LET r == procs[p]
      second == r.seats > 1 /\ (r.op = "train_leave" \/ r.status = "active")
  IN  /\ r.pc = "leave_write"
      /\ bookings' = IF second THEN update_booking_seats(bookings, r.booking, r.seats - 1)
                     ELSE cancel_booking(bookings, r.booking)
      /\ last' = Answer(r.op, r.user, IF second THEN "SeatRemoved" ELSE "Cancelled", None)
      /\ SetProc(p, IF ~second /\ r.op = "tour_leave" /\ r.status = "active"
                    THEN [r EXCEPT !.pc = "leave_pop"] ELSE Idle)
      /\ UNCHANGED <<users, config, payments, now>>

\* next_wait = await db.pop_waitlist(...)
LeavePop(p) ==
  LET next_wait == pop_waitlist(bookings, "tournament", TournamentId)
  IN  /\ procs[p].pc = "leave_pop"
      /\ SetProc(p, IF next_wait = None THEN Idle
                    ELSE [procs[p] EXCEPT !.pc = "leave_promote", !.booked = next_wait])
      /\ UNCHANGED <<users, config, bookings, payments, now, last>>

\* await db.update_booking_status(next_wait, "active")
LeavePromote(p) ==
  LET r == procs[p]
  IN  /\ r.pc = "leave_promote"
      /\ IF UpdateStatusFails(bookings, r.booked, "active")
         THEN UNCHANGED <<bookings, last>>
         ELSE /\ bookings' = update_booking_status(bookings, r.booked, "active")
              /\ last' = Answer(r.op, r.user, "Promoted", bookings[r.booked].user_id)
      /\ SetProc(p, Idle)
      /\ UNCHANGED <<users, config, payments, now>>

\* cb_admin_pay_toggle / cb_admin_pay_tournament_toggle pressed by a on the
\* button of booking b, up to the SELECT of toggle_payment
ToggleRead(p, a, b) ==
  /\ procs[p].pc = "idle"
  /\ a = AdminId
  /\ SetProc(p, [Idle EXCEPT !.pc = "toggle_write", !.op = "pay_toggle", !.user = a,
                   !.booking = b,
                   !.status = payment_status(payments, b)])
  /\ UNCHANGED <<users, config, bookings, payments, now, last>>

\* the INSERT and UPDATE of toggle_payment, and its commit
ToggleWrite(p) ==
  LET r == procs[p]
  IN  /\ r.pc = "toggle_write"
      /\ payments' = IF ToggleFails(payments, r.booking, r.status) THEN payments
                     ELSE toggle_write(payments, r.booking, r.user, r.status)
      /\ SetProc(p, Idle)
      /\ UNCHANGED <<users, config, bookings, now, last>>

\* one Leave and one TogglePayment may be in flight at a time
LeaveProc == 1
ToggleProc == 2

PayLeaveBegin ==
  /\ \E u \in Members : \E e \in Entities : LeaveBegin(LeaveProc, u, e)
  /\ UNCHANGED <<rt, others>>
PayLeaveWrite == LeaveWrite(LeaveProc) /\ UNCHANGED <<rt, others>>
PayLeavePop == LeavePop(LeaveProc) /\ UNCHANGED <<rt, others>>
PayLeavePromote == LeavePromote(LeaveProc) /\ UNCHANGED <<rt, others>>
PayToggleRead ==
  /\ \E a \in Callers : \E b \in DOMAIN bookings : ToggleRead(ToggleProc, a, b)
  /\ UNCHANGED <<rt, others>>
PayToggleWrite == ToggleWrite(ToggleProc) /\ UNCHANGED <<rt, others>>

\* the handlers that fill the store, run between the steps of the two calls
\* while the bookings table is short
PayTrainJoin == TrainJoin /\ Len(bookings') <= MaxPaidBookings
PayTrainJoinSecond == TrainJoinSecond /\ Len(bookings') <= MaxPaidBookings
PayTourJoin == TourJoin /\ Len(bookings') <= MaxPaidBookings
PayTourJoinSecond == TourJoinSecond /\ Len(bookings') <= MaxPaidBookings

PayNext ==
  \/ PayTrainJoin
  \/ PayTrainJoinSecond
  \/ PayTourJoin
  \/ PayTourJoinSecond
  \/ Tick
  \/ PayLeaveBegin
  \/ PayLeaveWrite
  \/ PayLeavePop
  \/ PayLeavePromote
  \/ PayToggleRead
  \/ PayToggleWrite

\* Joins, and Leave and TogglePayment calls whose store accesses interleave
PaySpec == Init /\ [][PayNext]_vars

\* C17: TogglePayment changes no booking, Join, JoinSecondSeat, Leave and
\* Promotion change no payment's status, and however a TogglePayment and a
\* Leave on the same booking interleave, every payment row stays Pending or
\* Confirmed and stays attached to its booking.
C17_PaymentFrame ==
  /\ [](\A k \in DOMAIN payments :
          /\ payments[k].status \in {"pending", "confirmed"}
          /\ payments[k].booking_id \in DOMAIN bookings)
  /\ [][/\ \A k \in DOMAIN payments :
             k \in DOMAIN payments' /\ payments'[k].booking_id = payments[k].booking_id
        /\ PayToggleWrite => bookings' = bookings
        /\ bookings' # bookings =>
             \A k \in DOMAIN payments : payments'[k].status = payments[k].status]_vars

\* a TogglePayment has read the payment of a booking, and before it writes, a
\* Leave has cancelled that very booking and is about to promote from the waitlist
C17_Witness ==
  /\ procs[ToggleProc].pc = "toggle_write"
  /\ procs[LeaveProc].pc = "leave_pop"
  /\ procs[ToggleProc].booking = procs[LeaveProc].booking
  /\ bookings[procs[LeaveProc].booking].status = "cancelled"
  /\ WaitlistedRows(bookings, Tour) # {}


\* ----------------------------------------------------------------------- C18
\* DB.list_entity_bookings: the bookings of entity <<et, eid>> in status st whose
\* user has a users row (the JOIN); the page limit is above MaxBookings
list_entity_bookings(et, eid, st) ==
  {b \in DOMAIN bookings :
     /\ bookings[b].entity_type = et /\ bookings[b].entity_id = eid
     /\ bookings[b].status = st
     /\ bookings[b].user_id \in DOMAIN users}

\* cb_admin_training_users / cb_admin_tournament_users opened by a: the message
\* is edited to show one payment toggle button per Active booking of the entity
cb_admin_users(a, et, eid) ==
  /\ a = AdminId
  /\ buttons' = {<<et, b>> : b \in list_entity_bookings(et, eid, "active")}
  /\ UNCHANGED <<prog, notify_open_log, sent, scan, outbox, admin_invites, admins>>

\* cb_admin_pay_toggle / cb_admin_pay_tournament_toggle: a presses the toggle
\* button of booking b; DB.toggle_payment(b, a) runs on the id the button carries
cb_admin_pay_toggle(a, et, b) ==
  /\ a = AdminId
  /\ <<et, b>> \in buttons
  /\ ~ToggleFails(payments, b, payment_status(payments, b))
  /\ payments' = toggle_payment(payments, b, a)
  /\ UNCHANGED <<users, config, bookings, now, last, procs, others>>

\* DB.reset_all: every row of payments, bookings, tournament_groups,
\* tournaments, training_slots, group_settings and users is deleted and the
\* AUTOINCREMENT sequences restart; notify_open_log is not in the list
reset_all ==
  /\ payments' = <<>>
  /\ bookings' = <<>>
  /\ tournament_groups' = {}
  /\ tournaments' = <<>>
  /\ training_slots' = <<>>
  /\ group_settings' = <<>>
  /\ users' = <<>>

\* cb_admin_reset_confirm pressed by a, from the menu of another message than
\* the one that shows the toggle buttons
cb_admin_reset_confirm(a) ==
  /\ a = AdminId
  /\ reset_all
  /\ UNCHANGED <<now, last, procs, others>>

TrainingUsers ==
  /\ \E a \in Callers : cb_admin_users(a, "training", SlotId)
  /\ UNCHANGED rt
TournamentUsers ==
  /\ \E a \in Callers : cb_admin_users(a, "tournament", TournamentId)
  /\ UNCHANGED rt
TrainingPayToggle ==
  /\ \E a \in Callers : \E b \in 1..MaxBookings : cb_admin_pay_toggle(a, "training", b)
  /\ UNCHANGED rt
TournamentPayToggle ==
  /\ \E a \in Callers : \E b \in 1..MaxBookings : cb_admin_pay_toggle(a, "tournament", b)
  /\ UNCHANGED rt
ResetConfirm ==
  /\ \E a \in Callers : cb_admin_reset_confirm(a)
  /\ UNCHANGED rt

ResetNext ==
  \/ PayTrainJoin
  \/ TrainLeave
  \/ PayTourJoin
  \/ TourLeave
  \/ Tick
  \/ TrainingUsers
  \/ TournamentUsers
  \/ TrainingPayToggle
  \/ TournamentPayToggle
  \/ ResetConfirm

\* Join and Leave while the bookings table is short, the administrator's users
\* lists with their payment toggle buttons, and the administrator's reset
ResetSpec == Init /\ [][ResetNext]_vars

\* the payment rows of booking b
PaymentsOf(b) == {k \in DOMAIN payments : payments[k].booking_id = b}

\* C18: every booking has exactly one payment record, no booking has two, every
\* payment record refers to an existing booking, and the payment record of a
\* booking that has just been created is Pending
C18_OnePaymentPerBooking ==
  /\ [](/\ \A b \in DOMAIN bookings : Cardinality(PaymentsOf(b)) = 1
        /\ \A k \in DOMAIN payments : payments[k].booking_id \in DOMAIN bookings)
  /\ [][\A b \in DOMAIN bookings' :
          b \notin DOMAIN bookings => payment_status(payments', b) = "pending"]_vars

\* ------------------------------------------------- slot-opened notifications
\* DB.list_active_slots(from, to): the active slots that start in [from, to]
list_active_slots(from, to) ==
  {s \in DOMAIN training_slots :
     /\ training_slots[s].is_active = 1
     /\ from <= training_slots[s].starts_at /\ training_slots[s].starts_at <= to}

\* mutant: every user of the group is listed, opted in or not
list_users_with_notify_all(us, gid) == {u \in DOMAIN us : us[u].group_id = gid}

\* DB.list_users_with_notify
list_users_with_notify(us, gid) ==
  {u \in DOMAIN us : us[u].group_id = gid /\ us[u].notify_open = 1}

\* DB.list_notified_user_ids
list_notified_user_ids(log, s) == {u \in {e[1] : e \in log} : <<u, s>> \in log}

\* DB.list_active_booking_user_ids
list_active_booking_user_ids(bk, et, eid) ==
  {bk[b].user_id : b \in {x \in DOMAIN bk : /\ bk[x].entity_type = et
                                            /\ bk[x].entity_id = eid
                                            /\ bk[x].status = "active"}}

\* DB.mark_open_notified: INSERT OR IGNORE on the primary key (user_id, slot_id)
mark_open_notified(log, u, s) == log \cup {<<u, s>>}

\* send_open_notifications: open_dt <= now < open_dt + timedelta(minutes=1)
InOpenWindow(open_dt, t) == open_dt <= t /\ t < open_dt + 1

\* the scan is over: notify_open_loop sleeps 60 seconds, so the next scan of
\* this task reads a later minute than the one this scan read
ScanDone == [NoScan EXCEPT !.since = scan.now]

\* the users the for loop has still to serve: not in notified, not in booked_users
ScanTodo == scan.users \ (scan.notified \cup scan.booked)

\* send_open_notifications up to the window test: now = tz_now(), the slots of
\* list_active_slots(now - 1 day, now + 30 days), the group settings, open_dt
ScanStart ==
  /\ scan.pc = "idle"
  /\ scan.since = None \/ now > scan.since
  /\ LET listed == SlotId \in list_active_slots(now - MinutesPerDay, now + 30 * MinutesPerDay)
         settled == training_slots[SlotId].group_id \in DOMAIN group_settings
     IN  IF listed /\ settled /\ InOpenWindow(SlotOpen, now)
         THEN scan' = [NoScan EXCEPT !.pc = "users", !.now = now, !.since = scan.since]
         ELSE scan' = [NoScan EXCEPT !.since = now]
  /\ UNCHANGED <<prog, rt, buttons, notify_open_log, sent, outbox, admin_invites, admins>>

\* users = await db.list_users_with_notify(slot["group_id"]); no user: next slot
ScanUsers ==
  /\ scan.pc = "users"
  /\ LET us == list_users_with_notify(users, training_slots[SlotId].group_id)
     IN  scan' = IF us = {} THEN ScanDone
                 ELSE [scan EXCEPT !.pc = "notified", !.users = us]
  /\ UNCHANGED <<prog, rt, buttons, notify_open_log, sent, outbox, admin_invites, admins>>

\* notified = set(await db.list_notified_user_ids(slot["slot_id"]))
ScanNotified ==
  /\ scan.pc = "notified"
  /\ scan' = [scan EXCEPT !.pc = "booked",
                          !.notified = list_notified_user_ids(notify_open_log, SlotId)]
  /\ UNCHANGED <<prog, rt, buttons, notify_open_log, sent, outbox, admin_invites, admins>>

\* booked_users = set(await db.list_active_booking_user_ids("training", slot_id))
ScanBooked ==
  /\ scan.pc = "booked"
  /\ scan' = [scan EXCEPT !.pc = "loop",
                          !.booked = list_active_booking_user_ids(bookings, "training", SlotId)]
  /\ UNCHANGED <<prog, rt, buttons, notify_open_log, sent, outbox, admin_invites, admins>>

\* await bot.send_message(uid, text, reply_markup=kb) for the next uid of the
\* loop: the message is delivered, or Telegram refuses it and the exception
\* is swallowed
ScanSend ==
  /\ scan.pc = "loop"
  /\ Len(sent) < MaxSent
  /\ \E uid \in ScanTodo :
       \/ /\ sent' = Append(sent, <<uid, SlotId>>)
          /\ scan' = [scan EXCEPT !.pc = "mark", !.uid = uid]
       \/ /\ sent' = sent
          /\ scan' = [scan EXCEPT !.users = @ \ {uid}]
  /\ UNCHANGED <<prog, rt, buttons, notify_open_log, outbox, admin_invites, admins>>

\* await db.mark_open_notified(uid, slot["slot_id"])
ScanMark ==
  /\ scan.pc = "mark"
  /\ notify_open_log' = mark_open_notified(notify_open_log, scan.uid, SlotId)
  /\ scan' = [scan EXCEPT !.pc = "loop", !.uid = None, !.users = @ \ {scan.uid}]
  /\ UNCHANGED <<prog, rt, buttons, sent, outbox, admin_invites, admins>>

\* the for loop has no uid left: the scan returns
ScanEnd ==
  /\ scan.pc = "loop"
  /\ ScanTodo = {}
  /\ scan' = ScanDone
  /\ UNCHANGED <<prog, rt, buttons, notify_open_log, sent, outbox, admin_invites, admins>>

\* main: notify_task.cancel() when polling stops, at whichever await the task
\* is suspended, and asyncio.create_task(notify_open_loop()) when the bot is
\* started again; the store is kept
ScanRestart ==
  /\ scan # NoScan
  /\ scan' = NoScan
  /\ UNCHANGED <<prog, rt, buttons, notify_open_log, sent, outbox, admin_invites, admins>>

\* cb_user_settings_notify_open_toggle pressed by u
cb_user_settings_notify_open_toggle(u) ==
  LET enabled == u \in DOMAIN users /\ users[u].notify_open # 0
  IN  /\ u \in DOMAIN users
      /\ users' = [users EXCEPT ![u].notify_open = IF enabled THEN 0 ELSE 1]
      /\ UNCHANGED <<config, bookings, payments, now, last, procs>>

NotifyToggle ==
  /\ \E u \in Callers : cb_user_settings_notify_open_toggle(u)
  /\ UNCHANGED <<rt, others>>

\* the clock, up to the minute after the slot's open instant
NotifyTick ==
  /\ SlotId \in DOMAIN training_slots
  /\ \E t \in {SlotOpen, SlotOpen + 1} : t > now /\ now' = t
  /\ UNCHANGED <<users, config, bookings, payments, last, procs, rt, others>>

NotifyNext ==
  \/ PayTrainJoin
  \/ NotifyToggle
  \/ NotifyTick
  \/ ScanStart
  \/ ScanUsers
  \/ ScanNotified
  \/ ScanBooked
  \/ ScanSend
  \/ ScanMark
  \/ ScanEnd
  \/ ScanRestart

\* the notification task next to users who join and opt in or out
NotifySpec == Init /\ [][NotifyNext]_vars

\* ----------------------------------------------------------------------- C19
\* C19: over any sequence of scans, cancelled and restarted ones included, no
\* (user, slot) pair receives the slot-opened notification twice.
C19_AtMostOnce ==
  \A i \in DOMAIN sent : \A j \in DOMAIN sent : sent[i] = sent[j] => i = j

\* ----------------------------------------------------------------------- C20
\* user u holds an Active booking on the slot
HoldsActive(u) == \E i \in ActiveRows(bookings, Slot) : bookings[i].user_id = u

\* C20: a scan goes on to look for recipients only when the now it read lies in
\* [openInstant, openInstant + 1 minute); the users it lists belong to the
\* slot's group and have opted in; those it keeps hold no Active booking on the
\* slot when it reads the bookings; and a notification is sent only by such a
\* scan, only for the slot, and only to a user it kept.
C20_NotificationTargets ==
  [][/\ (scan.pc = "idle" /\ scan'.pc = "users") =>
          scan'.now = now /\ SlotOpen <= now /\ now < SlotOpen + 1
     /\ (scan.pc = "users" /\ scan'.pc = "notified") =>
          \A u \in scan'.users : InGroupOf(u, Slot) /\ users[u].notify_open = 1
     /\ (scan.pc = "booked" /\ scan'.pc = "loop") =>
          \A u \in scan'.users \ scan'.booked : ~HoldsActive(u)
     /\ sent' # sent =>
          /\ SlotOpen <= scan.now /\ scan.now < SlotOpen + 1
          /\ \E u \in scan.users \ scan.booked : sent' = Append(sent, <<u, SlotId>>)]_vars

\* a notification has been sent while another opted-in member of the group,
\* who holds an Active booking, has received none
C20_Witness ==
  /\ Len(sent) > 0
  /\ \E u \in Members :
       /\ users[u].notify_open = 1 /\ HoldsActive(u)
       /\ \A i \in DOMAIN sent : sent[i][1] # u

\* ----------------------------------------------------------------------- C21
TourLeaveSend ==
  /\ \E u \in Callers : cb_tour_leave_send(u)
  /\ UNCHANGED <<rt, buttons, notify_open_log, sent, scan, admin_invites, admins>>

PromoNext ==
  \/ TrainJoin
  \/ TrainLeave
  \/ TourJoin
  \/ TourJoinSecond
  \/ TourLeaveSend
  \/ Tick

\* the handlers that fill and empty a tournament, Leave with its message
PromoSpec == Init /\ [][PromoNext]_vars

\* the bookings a step turns from Waitlisted into Active
PromotedBy(bk, bk2) ==
  {b \in DOMAIN bk : bk[b].status = "waitlist" /\ bk2[b].status = "active"}

\* C21: a step that promotes a booking hands exactly one message to the
\* gateway, addressed to the promoted booking's user; whether that message is
\* delivered or refused, the promoted booking is Active and the leaver's
\* booking is Cancelled after the step; a step that promotes nobody hands over
\* no message.
C21_PromotionNotified ==
  [][/\ PromotedBy(bookings, bookings') = {} => outbox' = outbox
     /\ \A b \in PromotedBy(bookings, bookings') :
          /\ PromotedBy(bookings, bookings') = {b}
          /\ Len(outbox') = Len(outbox) + 1
          /\ SubSeq(outbox', 1, Len(outbox)) = outbox
          /\ outbox'[Len(outbox')].to = bookings[b].user_id
          /\ bookings'[b].status = "active"
          /\ \E c \in DOMAIN bookings :
               /\ bookings[c].user_id = last'.user /\ bookings[c].status = "active"
               /\ bookings'[c].status = "cancelled"]_vars

\* a promotion whose message Telegram refused: the promoted user's booking is
\* Active all the same
C21_Witness ==
  /\ last.outcome = "Promoted"
  /\ Len(outbox) > 0
  /\ ~outbox[Len(outbox)].delivered
  /\ outbox[Len(outbox)].to = last.promoted
  /\ \E b \in ActiveRows(bookings, Tour) : bookings[b].user_id = last.promoted

\* ----------------------------------------------------------------------- C22
\* no handler invocation is under way
AllIdle == \A p \in Procs : procs[p].pc = "idle"

\* Join calls that run while no Leave is under way
QuietTourJoin == AllIdle /\ TourJoin
QuietTourJoinSecond == AllIdle /\ TourJoinSecond

\* cb_tour_leave calls of any two users, their store accesses interleaved
OverlapLeaveBegin ==
  /\ \E p \in Procs : \E u \in Members : \E e \in Entities \cap {Tour} :
       LeaveBegin(p, u, e)
  /\ UNCHANGED <<rt, others>>
OverlapLeaveWrite == (\E p \in Procs : LeaveWrite(p)) /\ UNCHANGED <<rt, others>>
OverlapLeavePop == (\E p \in Procs : LeavePop(p)) /\ UNCHANGED <<rt, others>>
OverlapLeavePromote == (\E p \in Procs : LeavePromote(p)) /\ UNCHANGED <<rt, others>>

LeaveNext ==
  \/ QuietTourJoin
  \/ QuietTourJoinSecond
  \/ Tick
  \/ OverlapLeaveBegin
  \/ OverlapLeaveWrite
  \/ OverlapLeavePop
  \/ OverlapLeavePromote

\* Leave calls on the tournament that overlap in time; Join calls in between
LeaveSpec == Init /\ [][LeaveNext]_vars

\* invocation p runs update_booking_status(next_wait, "active") in this step
\* and the store accepts it
SetsActive(p) ==
  /\ procs[p].pc = "leave_promote" /\ procs'[p].pc = "idle"
  /\ ~UpdateStatusFails(bookings, procs[p].booked, "active")

\* C22: when Leave calls on the tournament overlap, a step promotes at most one
\* booking, the booking a Leave sets Active is Waitlisted at that moment, and a
\* Cancelled booking is never set Active.
C22_PromotionFromWaitlist ==
  [][/\ Cardinality(PromotedBy(bookings, bookings')) <= 1
     /\ \A p \in Procs :
          SetsActive(p) => bookings[procs[p].booked].status = "waitlist"
     /\ \A b \in DOMAIN bookings :
          bookings[b].status = "cancelled" => bookings'[b].status # "active"]_vars

\* ----------------------------------------------------------------------- C26
\* C26: in every execution, overlapping calls included, a booking is created
\* Active or Waitlisted, a Cancelled booking stays Cancelled, and an Active
\* booking becomes nothing but Cancelled.
C26_StatusLifecycle ==
  [][/\ \A b \in DOMAIN bookings' \ DOMAIN bookings :
          bookings'[b].status \in {"active", "waitlist"}
     /\ \A b \in DOMAIN bookings :
          /\ b \in DOMAIN bookings'
          /\ bookings[b].status = "cancelled" => bookings'[b].status = "cancelled"
          /\ bookings[b].status = "active" =>
               bookings'[b].status \in {"active", "cancelled"}]_vars

\* ----------------------------------------------------------------------- C23
\* Join and JoinSecondSeat pressed by any Telegram user, registered or not,
\* while the bookings table is short
AnyTrainJoin ==
  /\ \E u \in TelegramIds : cb_train_join(u)
  /\ Len(bookings') <= MaxPaidBookings
  /\ UNCHANGED <<rt, others>>
AnyTrainJoinSecond ==
  /\ \E u \in TelegramIds : cb_train_join_second(u)
  /\ Len(bookings') <= MaxPaidBookings
  /\ UNCHANGED <<rt, others>>
AnyTourJoin ==
  /\ \E u \in TelegramIds : cb_tour_join(u)
  /\ Len(bookings') <= MaxPaidBookings
  /\ UNCHANGED <<rt, others>>
AnyTourJoinSecond ==
  /\ \E u \in TelegramIds : cb_tour_join_second(u)
  /\ Len(bookings') <= MaxPaidBookings
  /\ UNCHANGED <<rt, others>>

GroupNext ==
  \/ Start
  \/ AnyTrainJoin
  \/ AnyTrainJoinSecond
  \/ AnyTourJoin
  \/ AnyTourJoinSecond
  \/ Tick

\* users who register with or without an invite, and Join calls by anybody
GroupSpec == Init /\ [][GroupNext]_vars

\* what JoinSecondSeat answers to user u on entity e
JoinSecondOutcome(u, e) ==
  IF e[1] = "training" THEN TrainJoinSecondOutcome(u) ELSE TourJoinSecondOutcome(u)

JoinOps == {"train_join", "train_join2", "tour_join", "tour_join2"}

\* the entity a handler call recorded in `last` is about
EntityOfOp(op) == IF op \in {"train_join", "train_join2"} THEN Slot ELSE Tour

\* C23: Join and JoinSecondSeat answer NotYourGroup to every caller who is not
\* of the training slot's group, or whose group (if any) is not among the
\* tournament's groups, and no Join or JoinSecondSeat of such a caller creates
\* or changes a booking.
C23_NotYourGroup ==
  /\ [](\A e \in Entities : \A u \in TelegramIds :
          ~InGroupOf(u, e) =>
            /\ JoinOutcome(u, e) = "NotYourGroup"
            /\ JoinSecondOutcome(u, e) = "NotYourGroup")
  /\ [][(bookings' # bookings /\ last'.op \in JoinOps) =>
          InGroupOf(last'.user, EntityOfOp(last'.op))]_vars

\* a registered user without a group and a user of another group face an
\* entity that has just accepted a Join from one of its own
C23_Witness ==
  /\ \E u \in DOMAIN users : users[u].group_id = None
  /\ \E u \in DOMAIN users : users[u].group_id = OtherGroupId
  /\ last.outcome = "Joined"
  /\ \E e \in Entities : InJoinWindow(e) /\ FreeSeats(bookings, e) > 0

\* ----------------------------------------------------------------------- C24
\* C24: no create_booking call adds a booking row (or a payment row) for a
\* user and an entity that already have an Active or Waitlisted booking,
\* whatever the status of the new row.
C24_DuplicateRefused ==
  [][(Len(bookings') > Len(bookings) \/ Len(payments') > Len(payments)) =>
       \A b \in DOMAIN bookings' \ DOMAIN bookings :
         LiveRows(bookings, bookings'[b].user_id,
                  <<bookings'[b].entity_type, bookings'[b].entity_id>>) = {}]_vars

\* ----------------------------------------------------------------------- C25
\* message_router, mode admin_training_book, up to `guest_id = await
\* db.create_guest_user(name, None)`: the guest row is committed here
AdminBookGuest(p, a, name) ==
  /\ procs[p].pc = "idle"
  /\ AdminBookOutcome(name) = "Joined"
  /\ Cardinality({k \in DOMAIN users : k < 0}) < MaxGuests
  /\ users' = create_guest_user(users, None)
  /\ SetProc(p, [Idle EXCEPT !.pc = "book_create", !.op = "admin_book",
                   !.user = new_guest_id(users)])
  /\ UNCHANGED <<config, bookings, payments, now, last>>

\* await db.create_booking(guest_id, "training", slot_id, status="active")
AdminBookCreate(p) ==
  /\ procs[p].pc = "book_create"
  /\ StoreInsert("admin_book", procs[p].user, "training", SlotId, "active", "Joined")
  /\ SetProc(p, Idle)

\* the store call invocation p is about to make raises (sqlite3.OperationalError:
\* locked database, full disk): the handler ends there; what its earlier calls
\* committed, each on a connection of its own, stays
StoreFailure(p) ==
  /\ procs[p].pc # "idle"
  /\ last' = Answer(procs[p].op, procs[p].user, "StorageError", None)
  /\ SetProc(p, Idle)
  /\ UNCHANGED <<users, config, bookings, payments, now>>

\* the invocation that runs admin_training_book
BookProc == 2

FailLeaveBegin ==
  /\ \E u \in Members : \E e \in Entities \cap {Tour} : LeaveBegin(LeaveProc, u, e)
  /\ UNCHANGED <<rt, others>>
FailLeaveWrite == LeaveWrite(LeaveProc) /\ UNCHANGED <<rt, others>>
FailLeavePop == LeavePop(LeaveProc) /\ UNCHANGED <<rt, others>>
FailLeavePromote == LeavePromote(LeaveProc) /\ UNCHANGED <<rt, others>>
FailAdminBookGuest ==
  /\ \E name \in GuestNames : AdminBookGuest(BookProc, AdminId, name)
  /\ UNCHANGED <<rt, others>>
FailAdminBookCreate == AdminBookCreate(BookProc) /\ UNCHANGED <<rt, others>>
FailStore == (\E p \in Procs : StoreFailure(p)) /\ UNCHANGED <<rt, others>>
QuietTrainJoin == AllIdle /\ TrainJoin

FailNext ==
  \/ QuietTrainJoin
  \/ QuietTourJoin
  \/ QuietTourJoinSecond
  \/ Tick
  \/ FailLeaveBegin
  \/ FailLeaveWrite
  \/ FailLeavePop
  \/ FailLeavePromote
  \/ FailAdminBookGuest
  \/ FailAdminBookCreate
  \/ FailStore

\* one Leave and one AdminBook at a time, store call by store call, any of
\* which may fail; Join calls in between
FailSpec == Init /\ [][FailNext]_vars

\* C25: a Leave that a storage failure ended has left its user's booking as it
\* was (the user is still enrolled), and once no AdminBook is under way every
\* guest user has a booking.
C25_NoPartialMutation ==
  /\ (last.op = "tour_leave" /\ last.outcome = "StorageError") =>
       LiveRows(bookings, last.user, Tour) # {}
  /\ AllIdle =>
       \A g \in DOMAIN users : g < 0 => \E b \in DOMAIN bookings : bookings[b].user_id = g

\* ----------------------------------------------------------------------- C27
\* the Active two-seat bookings of user u on entity e
TwoSeatRows(bk, u, e) ==
  {b \in ActiveRows(bk, e) : bk[b].user_id = u /\ bk[b].seats = 2}

\* C27: before the cancel deadline, Leave by a user who holds an Active
\* booking with seats = 2 is answered by removing one seat: that booking stays
\* Active with seats = 1, the active seat count drops by exactly 1, and no
\* other booking changes (nobody is promoted).
C27_LeaveSecondSeat ==
  /\ [](\A u \in Callers : \A e \in Entities :
          (now < CancelDeadline(e) /\ TwoSeatRows(bookings, u, e) # {}) =>
            LeaveOutcomes(u, e) = {"SeatRemoved"})
  /\ [][\A u \in Callers : \A e \in Entities :
          (/\ now < CancelDeadline(e)
           /\ TwoSeatRows(bookings, u, e) # {}
           /\ IF e[1] = "training" THEN cb_train_leave(u) ELSE cb_tour_leave(u))
          => /\ \E b \in TwoSeatRows(bookings, u, e) :
                  bookings' = [bookings EXCEPT ![b].seats = 1]
             /\ ActiveSeatCount(bookings', e) = ActiveSeatCount(bookings, e) - 1]_vars

\* ----------------------------------------------------------------------- C28
\* C28: after every Leave on the tournament that changed a booking, either no
\* Waitlisted booking remains or the Active seats fill the capacity.
C28_WaitlistFirst ==
  [][\A u \in Callers :
       (/\ TournamentId \in DOMAIN tournaments
        /\ cb_tour_leave(u)
        /\ bookings' # bookings)
       => \/ WaitlistedRows(bookings', Tour) = {}
          \/ ActiveSeatCount(bookings', Tour) = CapacityOf(Tour)]_vars

\* ----------------------------------------------------------------------- C29
\* the Waitlisted bookings of user u on entity e
WaitingRowsOf(bk, u, e) == {b \in WaitlistedRows(bk, e) : bk[b].user_id = u}

admin_tournament_settings_capacity(a, raw) ==
  /\ a = AdminId
  /\ TournamentId \in DOMAIN tournaments
  /\ tournaments' = [tournaments EXCEPT ![TournamentId].capacity = raw]
  /\ UNCHANGED <<users, training_slots, group_settings, tournament_groups,
                 bookings, payments, now, last, procs>>

\* the capacities an administrator types
TypedCapacities == 0..(MaxCapacity + 1)

CapacityTyped ==
  /\ \E a \in Callers : \E raw \in TypedCapacities :
       admin_tournament_settings_capacity(a, raw)
  /\ UNCHANGED <<rt, others>>

CapacityNext ==
  \/ TourJoin
  \/ TourJoinSecond
  \/ TourLeave
  \/ CapacityDelta
  \/ CapacityTyped
  \/ Tick

\* a tournament that fills and empties while the administrator changes its
\* capacity with the buttons or a typed value
CapacitySpec == Init /\ [][CapacityNext]_vars

\* C30: when an administrator changes the capacity of a tournament that has
\* Active bookings, the seats of the Active bookings still sum to no more than
\* the new capacity.
C30_CapacityAfterChange ==
  [][(/\ TournamentId \in DOMAIN tournaments
      /\ tournaments'[TournamentId].capacity # tournaments[TournamentId].capacity
      /\ ActiveRows(bookings, Tour) # {})
     => ActiveSeatCount(bookings', Tour) <= tournaments'[TournamentId].capacity]_vars

\* ----------------------------------------------------------------------- C31
\* cb_admin_pay_toggle calls on any booking, the SELECT and the writes of
\* toggle_payment of two calls interleaved
OverlapToggleRead ==
  /\ \E p \in Procs : \E a \in Callers : \E b \in DOMAIN bookings : ToggleRead(p, a, b)
  /\ UNCHANGED <<rt, others>>
OverlapToggleWrite == (\E p \in Procs : ToggleWrite(p)) /\ UNCHANGED <<rt, others>>

\* Join calls that run while no toggle is under way and the table is short
QuietPayTrainJoin == AllIdle /\ PayTrainJoin
QuietPayTourJoin == AllIdle /\ PayTourJoin

ToggleNext ==
  \/ QuietPayTrainJoin
  \/ QuietPayTourJoin
  \/ Tick
  \/ OverlapToggleRead
  \/ OverlapToggleWrite

\* payment toggles that overlap in time
ToggleSpec == Init /\ [][ToggleNext]_vars

\* the other status of a payment
Flipped(status) == IF status = "pending" THEN "confirmed" ELSE "pending"

\* C31: a toggle turns Pending into Confirmed and Confirmed into Pending, two
\* toggles in a row restore the status, and every TogglePayment call that
\* completes, overlapping another one or not, flips the status the payment has
\* at that moment (so any two calls together leave the status they found).
C31_ToggleFlips ==
  /\ [](\A b \in DOMAIN bookings :
          /\ payment_status(payments, b) \in {"pending", "confirmed"}
          /\ payment_status(toggle_payment(payments, b, AdminId), b)
               = Flipped(payment_status(payments, b))
          /\ payment_status(toggle_payment(toggle_payment(payments, b, AdminId),
                                           b, AdminId), b)
               = payment_status(payments, b))
  /\ [][\A p \in Procs :
          (procs[p].pc = "toggle_write" /\ procs'[p].pc = "idle") =>
            payment_status(payments', procs[p].booking)
              = Flipped(payment_status(payments, procs[p].booking))]_vars

\* ----------------------------------------------------------------------- C32
\* the clock, minute by minute up to the minute after the slot's open instant
NotifyClock ==
  /\ SlotId \in DOMAIN training_slots
  /\ now < SlotOpen + 1
  /\ now' = IF now < SlotOpen THEN SlotOpen ELSE SlotOpen + 1
  /\ UNCHANGED <<users, config, bookings, payments, last, procs, rt, others>>

LiveNotifyNext ==
  \/ PayTrainJoin
  \/ NotifyToggle
  \/ NotifyClock
  \/ ScanStart
  \/ ScanUsers
  \/ ScanNotified
  \/ ScanBooked
  \/ ScanSend
  \/ ScanMark
  \/ ScanEnd
  \/ ScanRestart

\* notify_open_loop keeps ticking: time passes, and the task takes every step
\* of a scan it has reached (while True: scan; sleep 60)
ScanFairness ==
  /\ WF_vars(NotifyClock)
  /\ WF_vars(ScanStart)
  /\ WF_vars(ScanUsers)
  /\ WF_vars(ScanNotified)
  /\ WF_vars(ScanBooked)
  /\ WF_vars(ScanSend)
  /\ WF_vars(ScanMark)
  /\ WF_vars(ScanEnd)

\* the notification task under a scan loop that keeps ticking
LiveNotifySpec == Init /\ [][LiveNotifyNext]_vars /\ ScanFairness

\* at the slot's open instant u is an opted-in member of the slot's group with
\* no Active booking on the slot
DueAtOpen(u) ==
  /\ SlotId \in DOMAIN training_slots
  /\ now = SlotOpen
  /\ InGroupOf(u, Slot)
  /\ users[u].notify_open = 1
  /\ ~HoldsActive(u)

\* u has been sent the slot-opened notification for the slot
Notified(u) == \E i \in DOMAIN sent : sent[i] = <<u, SlotId>>

\* C32: if the scan loop keeps ticking, every user who at the slot's open
\* instant is an opted-in member of the slot's group with no Active booking is
\* eventually sent the slot-opened notification for the slot, also when a scan
\* was missed, was cancelled midway or a delivery attempt failed.
C32_EventuallyNotified == \A u \in Members : DueAtOpen(u) ~> Notified(u)

\* ----------------------------------------------------------------------- C33
\* a database that holds a training slot and a tournament (with the same id)
BothInit ==
  /\ users = InitUsers
  /\ group_settings = (GroupId :> InitSettings)
  /\ \E c \in 1..MaxCapacity : training_slots = (SlotId :> NewSlot(c))
  /\ \E c \in 1..MaxCapacity, w \in 1..MaxWaitlist :
       tournaments = (TournamentId :> NewTournament(c, w))
  /\ tournament_groups = {<<TournamentId, GroupId>>}
  /\ bookings = <<>>
  /\ payments = <<>>
  /\ now = Earliest(TimePoints)
  /\ last = Answer("none", None, "none", None)
  /\ procs = [p \in 1..NumProcs |-> Idle]
  /\ rt = NoRoundTrip
  /\ buttons = {}
  /\ notify_open_log = {}
  /\ sent = <<>>
  /\ scan = NoScan
  /\ outbox = <<>>
  /\ admin_invites = <<>>
  /\ admins = {}

\* the clock: into the join window, then past the cancel deadline
BothTick ==
  /\ \E t \in {SlotOpen, SlotCancel} : t > now /\ now' = t
  /\ UNCHANGED <<users, config, bookings, payments, last, procs, rt, others>>

BothNext ==
  \/ TrainJoin
  \/ TrainJoinSecond
  \/ TrainLeave
  \/ AdminBook
  \/ TourJoin
  \/ TourJoinSecond
  \/ TourLeave
  \/ BothTick

\* the handlers of Spec on a slot and a tournament side by side
BothSpec == BothInit /\ [][BothNext]_vars

\* the bookings of entity e, each with its payments
BookingsOf(bk, pay, e) ==
  {<<i, bk[i], {pay[k] : k \in {x \in DOMAIN pay : pay[x].booking_id = i}}>> :
     i \in {x \in DOMAIN bk : bk[x].entity_type = e[1] /\ bk[x].entity_id = e[2]}}

\* this step changes no booking and no payment of entity e, and no capacity,
\* seat count or waitlist count of e
Untouched(e) ==
  /\ BookingsOf(bookings', payments', e) = BookingsOf(bookings, payments, e)
  /\ training_slots' = training_slots /\ tournaments' = tournaments
  /\ ActiveSeatCount(bookings', e) = ActiveSeatCount(bookings, e)
  /\ Cardinality(WaitlistedRows(bookings', e)) = Cardinality(WaitlistedRows(bookings, e))

\* this step is a Join, JoinSecondSeat, Leave or AdminBook on the slot
TrainOp ==
  \/ \E u \in Callers : cb_train_join(u) \/ cb_train_join_second(u) \/ cb_train_leave(u)
  \/ \E name \in GuestNames : admin_training_book(AdminId, name)

\* this step is a Join, JoinSecondSeat or Leave (with its promotion) on the
\* tournament
TourOp == \E u \in Callers : cb_tour_join(u) \/ cb_tour_join_second(u) \/ cb_tour_leave(u)

\* C33: Join, JoinSecondSeat, Leave (with its promotion) and AdminBook on an
\* entity change no booking and no payment of the other entity, and no
\* capacity or waitlist count of it.
C33_OtherEntityFrame ==
  [][/\ Untouched(Tour) \/ ~TrainOp
     /\ Untouched(Slot) \/ ~TourOp]_vars

\* a Leave on the tournament has promoted a waitlisted booking while the
\* leaving user and the promoted user hold Active bookings on the slot
C33_Witness ==
  /\ last.op = "tour_leave" /\ last.outcome = "Promoted"
  /\ LiveRows(bookings, last.user, Slot) # {}
  /\ ActiveRows(bookings, Tour) # {}

\* ----------------------------------------------------------------------- C34
\* cb_train_join_second / cb_tour_join_second of user u on entity e, from the
\* start to booked = await db.count_active_bookings(...): a caller of another
\* group, a call outside the join window and a full entity are answered here
SecondBegin(p, u, e) ==
  LET train == e[1] = "training"
      allowed == IF train THEN users[u].group_id = training_slots[SlotId].group_id
                 ELSE TourGroupOk(u)
      in_window == IF train THEN SlotOpen <= now /\ now < SlotClose ELSE now < TourClose
      booked == count_active_bookings(bookings, e[1], e[2])
  IN  /\ procs[p].pc = "idle"
      /\ u \in DOMAIN users
      /\ allowed /\ in_window
      /\ booked < CapacityOf(e)
      /\ SetProc(p, [Idle EXCEPT !.pc = "second_existing", !.user = u, !.booked = booked,
                       !.op = IF train THEN "train_join2" ELSE "tour_join2"])
      /\ UNCHANGED <<users, config, bookings, payments, now, last>>

\* existing = await db.get_user_booking(...); current_seats >= 2 is answered
\* "Вы уже записали двоих."
SecondExisting(p) ==
  LET r == procs[p]
      e == EntityOfOp(r.op)
      existing == get_user_booking(bookings, r.user, e[1], e[2])
  IN  /\ r.pc = "second_existing"
      /\ SetProc(p, IF existing = None THEN [r EXCEPT !.pc = "second_create"]
                    ELSE IF bookings[existing].seats >= 2 THEN Idle
                    ELSE [r EXCEPT !.pc = "second_write", !.booking = existing,
                                   !.seats = bookings[existing].seats])
      /\ UNCHANGED <<users, config, bookings, payments, now, last>>

\* await db.create_booking(user, kind, id): the uncaught IntegrityError of the
\* unique index ends the handler
SecondCreate(p) ==
  LET r == procs[p]
      e == EntityOfOp(r.op)
  IN  /\ r.pc = "second_create"
      /\ IF CreateFails(bookings, r.user, e[1], e[2], "active")
         THEN UNCHANGED <<users, config, bookings, payments, now, last>>
         ELSE StoreInsert(r.op, r.user, e[1], e[2], "active", "Joined")
      /\ SetProc(p, Idle)

\* mutant: the UPDATE adds one to the stored seats (SET seats = seats + 1)
SecondWrite_increment(p) ==
  LET r == procs[p]
  IN  /\ r.pc = "second_write"
      /\ bookings' = update_booking_seats(bookings, r.booking, bookings[r.booking].seats + 1)
      /\ last' = Answer(r.op, r.user, "SecondSeat", None)
      /\ SetProc(p, Idle)
      /\ UNCHANGED <<users, config, payments, now>>

\* await db.update_booking_seats(existing["booking_id"], current_seats + 1)
SecondWrite(p) ==
  LET r == procs[p]
  IN  /\ r.pc = "second_write"
      /\ bookings' = update_booking_seats(bookings, r.booking, r.seats + 1)
      /\ last' = Answer(r.op, r.user, "SecondSeat", None)
      /\ SetProc(p, Idle)
      /\ UNCHANGED <<users, config, payments, now>>

\* JoinSecondSeat calls of any users on the entity, their store accesses
\* interleaved
OverlapSecondBegin ==
  /\ \E p \in Procs : \E u \in Members : \E e \in Entities : SecondBegin(p, u, e)
  /\ UNCHANGED <<rt, others>>
OverlapSecondExisting == (\E p \in Procs : SecondExisting(p)) /\ UNCHANGED <<rt, others>>
OverlapSecondCreate == (\E p \in Procs : SecondCreate(p)) /\ UNCHANGED <<rt, others>>
OverlapSecondWrite == (\E p \in Procs : SecondWrite(p)) /\ UNCHANGED <<rt, others>>

\* the clock reaches the slot's open instant
OpenTick ==
  /\ SlotId \in DOMAIN training_slots
  /\ now < SlotOpen
  /\ now' = SlotOpen
  /\ UNCHANGED <<users, config, bookings, payments, last, procs, rt, others>>

SeatsNext ==
  \/ QuietTourJoin
  \/ OpenTick
  \/ OverlapSecondBegin
  \/ OverlapSecondExisting
  \/ OverlapSecondCreate
  \/ OverlapSecondWrite
  \/ PayLeaveBegin
  \/ PayLeaveWrite
  \/ PayLeavePop
  \/ PayLeavePromote

\* JoinSecondSeat calls that overlap in time with one another and with a Leave
\* call; Join calls in between
SeatsSpec == Init /\ [][SeatsNext]_vars

\* C34: in every reachable state, overlapping JoinSecondSeat and Leave calls
\* included, every booking has 1 or 2 seats and every Waitlisted booking has
\* 1 seat.
C34_SeatsRange ==
  \A i \in DOMAIN bookings :
    /\ bookings[i].seats \in {1, 2}
    /\ bookings[i].status = "waitlist" => bookings[i].seats = 1

\* a JoinSecondSeat has given a booking its second seat while a Leave that
\* read the booking with one seat has still to write
C34_Witness ==
  \E p \in Procs :
    /\ procs[p].pc = "leave_write" /\ procs[p].seats = 1
    /\ bookings[procs[p].booking].seats = 2
    /\ last.outcome = "SecondSeat"

\* ----------------------------------------------------------------------- C35
\* C35: when Join calls of the same user for the same entity overlap in time
\* (a double tap), the user ends with at most one Active-or-Waitlisted booking
\* for it, whether the entity has a free seat or only waitlist room.
C35_DoubleTap ==
  \A u \in Members : \A e \in Entities :
    \A i \in LiveRows(bookings, u, e) : \A j \in LiveRows(bookings, u, e) : i = j

\* ----------------------------------------------------------------------- C36
\* cb_train_open / cb_tour_open show the entity view to user u (the slot or
\* tournament exists and the caller is of its group)
ViewShown(u, e) ==
  IF e[1] = "training"
  THEN u \in DOMAIN users /\ users[u].group_id = training_slots[SlotId].group_id
  ELSE tournaments[TournamentId].is_active = 1 /\ TourGroupOk(u)

\* cb_train_open / cb_tour_open: can_join
can_join(u, e) ==
  IF e[1] = "training"
  THEN LET booked == count_active_bookings(bookings, "training", SlotId)
           my_booking == get_user_booking(bookings, u, "training", SlotId)
       IN  /\ now >= SlotOpen /\ now < SlotClose
           /\ booked < training_slots[SlotId].capacity
           /\ my_booking = None
  ELSE LET t == tournaments[TournamentId]
           booked == count_active_bookings(bookings, "tournament", TournamentId)
           waitlist_count == count_bookings(bookings, "tournament", TournamentId, "waitlist")
           has_waitlist_spots == t.waitlist_limit > 0 /\ waitlist_count < t.waitlist_limit
       IN  /\ now < TourClose
           /\ get_user_booking_any(bookings, u, "tournament", TournamentId) = {None}
           /\ (booked < t.capacity \/ has_waitlist_spots)

\* cb_train_open / cb_tour_open: can_join_second
can_join_second(u, e) ==
  LET booked == count_active_bookings(bookings, e[1], e[2])
      my_booking == get_user_booking(bookings, u, e[1], e[2])
      my_seats == IF my_booking = None THEN 0 ELSE bookings[my_booking].seats
  IN  /\ InJoinWindow(e)
      /\ booked < CapacityOf(e)
      /\ my_booking # None
      /\ my_seats < 2

\* cb_train_open / cb_tour_open: can_leave
can_leave(u, e) ==
  /\ IF e[1] = "training" THEN get_user_booking(bookings, u, "training", SlotId) # None
     ELSE get_user_booking_any(bookings, u, "tournament", TournamentId) # {None}
  /\ now < CancelDeadline(e)

\* C36: for the same store state and the same now, the flags of the entity
\* view agree with the handlers: can_join is true exactly when Join would
\* create a booking, can_join_second exactly when JoinSecondSeat would succeed,
\* and can_leave exactly when Leave would be accepted.
C36_FlagsAgree ==
  \A e \in Entities : \A u \in Callers :
    ViewShown(u, e) =>
      /\ can_join(u, e) <=> JoinOutcome(u, e) \in {"Joined", "Waitlisted"}
      /\ can_join_second(u, e) <=> JoinSecondOutcome(u, e) \in {"Joined", "SecondSeat"}
      /\ can_leave(u, e) <=>
           LeaveOutcomes(u, e) \subseteq {"SeatRemoved", "Cancelled", "Promoted", "PromotionError"}

\* ----------------------------------------------------------------------- C37
\* admin invite tokens an administrator may create
MaxTokens == 2

\* is_admin: ADMIN_IDS or ADMIN_CACHE
is_admin(u) == u = AdminId \/ u \in admins

\* cb_admin_invite_admin pressed by a: DB.create_admin_invite of a fresh token
cb_admin_invite_admin(a) ==
  /\ is_admin(a)
  /\ Len(admin_invites) < MaxTokens
  /\ admin_invites' = Append(admin_invites, 1)
  /\ UNCHANGED <<prog, buttons, notify_open_log, sent, scan, outbox, admins>>

\* start_handler of user u with payload a_<token>, up to the SELECT of
\* resolve_admin_invite: the user is upserted; an administrator is answered
\* "Вы уже админ."; no active row for the token ends the call (False)
InviteSelect(p, u, token) ==
  /\ procs[p].pc = "idle"
  /\ users' = upsert_user(users, u)
  /\ SetProc(p, IF ~is_admin(u) /\ token \in DOMAIN admin_invites /\ admin_invites[token] = 1
                THEN [Idle EXCEPT !.pc = "invite_update", !.op = "start", !.user = u,
                                  !.token = token]
                ELSE Idle)
  /\ UNCHANGED <<config, bookings, payments, now, last, others>>

\* resolve_admin_invite: UPDATE admin_invites SET is_active=0 WHERE token=?,
\* commit, return True
InviteUpdate(p) ==
  /\ procs[p].pc = "invite_update"
  /\ admin_invites' = [admin_invites EXCEPT ![procs[p].token] = 0]
  /\ SetProc(p, [procs[p] EXCEPT !.pc = "invite_add"])
  /\ UNCHANGED <<users, config, bookings, payments, now, last,
                 buttons, notify_open_log, sent, scan, outbox, admins>>

\* await db.add_admin(user.id); ADMIN_CACHE.add(user.id)
InviteAdd(p) ==
  /\ procs[p].pc = "invite_add"
  /\ admins' = admins \cup {procs[p].user}
  /\ SetProc(p, Idle)
  /\ UNCHANGED <<users, config, bookings, payments, now, last,
                 buttons, notify_open_log, sent, scan, outbox, admin_invites>>

InviteCreate == (\E a \in Callers : cb_admin_invite_admin(a)) /\ UNCHANGED rt
RedeemSelect ==
  /\ \E p \in Procs : \E u \in Callers : \E token \in 1..MaxTokens : InviteSelect(p, u, token)
  /\ UNCHANGED rt
RedeemUpdate == (\E p \in Procs : InviteUpdate(p)) /\ UNCHANGED rt
RedeemAdd == (\E p \in Procs : InviteAdd(p)) /\ UNCHANGED rt

InviteNext ==
  \/ InviteCreate
  \/ RedeemSelect
  \/ RedeemUpdate
  \/ RedeemAdd

\* administrators creating invite links and users redeeming them, the store
\* accesses of two redemptions interleaved
InviteSpec == Init /\ [][InviteNext]_vars

\* the tokens that have been redeemed
Redeemed == {t \in DOMAIN admin_invites : admin_invites[t] = 0}

\* C37: an admin invite token grants administrator rights to at most one
\* user: after one successful redemption every later redemption of the token
\* fails and two overlapping redemptions by different users do not both
\* succeed, so the users who became administrators by redeeming tokens are
\* never more than the tokens redeemed.
C37_OneGrantPerToken == Cardinality(admins) <= Cardinality(Redeemed)

\* ----------------------------------------------------------------------- C38
\* bounds of the settings an administrator reaches with the buttons
MaxOpenDays == 3
MaxCloseMinutes == 35
MaxCancelMinutes == 420

\* group_settings row of a new group: the column defaults of the schema
DefaultSettings ==
  [open_days_before |-> DefaultOpenDaysBefore, open_time |-> <<10, 0>>,
   close_mode |-> "at_start", close_minutes_before |-> None,
   cancel_minutes_before |-> DefaultCancelMinutesBefore]

\* start times of the slots an administrator creates: day 3 at 00:00, 19:00, 23:59
StartTimes == {3 * MinutesPerDay, StartsAt, 3 * MinutesPerDay + 23 * 60 + 59}

\* a new group with one training slot, starting at any of StartTimes
SettingsInit ==
  /\ users = InitUsers
  /\ group_settings = (GroupId :> DefaultSettings)
  /\ \E s \in StartTimes :
       training_slots = (SlotId :> [NewSlot(MaxCapacity) EXCEPT !.starts_at = s])
  /\ tournaments = <<>>
  /\ tournament_groups = {}
  /\ bookings = <<>>
  /\ payments = <<>>
  /\ now = Earliest(TimePoints)
  /\ last = Answer("none", None, "none", None)
  /\ procs = [p \in 1..NumProcs |-> Idle]
  /\ rt = NoRoundTrip
  /\ buttons = {}
  /\ notify_open_log = {}
  /\ sent = <<>>
  /\ scan = NoScan
  /\ outbox = <<>>
  /\ admin_invites = <<>>
  /\ admins = {}

\* DB.update_group_settings of the group, as a settings handler calls it
SetGroupSettings(s) ==
  /\ group_settings' = [group_settings EXCEPT ![GroupId] = s]
  /\ UNCHANGED <<users, training_slots, tournaments, tournament_groups,
                 bookings, payments, now, last, procs>>

\* cb_admin_group_settings_open_days: val + 1, or max(0, val - 1)
cb_admin_group_settings_open_days(a, action) ==
  LET s == group_settings[GroupId]
      val == s.open_days_before
  IN  /\ is_admin(a)
      /\ action = "inc" => val < MaxOpenDays
      /\ SetGroupSettings([s EXCEPT !.open_days_before =
                             IF action = "inc" THEN val + 1
                             ELSE IF val - 1 > 0 THEN val - 1 ELSE 0])

\* cb_admin_group_settings_cancel_min: steps of 30, never below 0
cb_admin_group_settings_cancel_min(a, action) ==
  LET s == group_settings[GroupId]
      val == s.cancel_minutes_before
  IN  /\ is_admin(a)
      /\ action = "inc" => val + 30 <= MaxCancelMinutes
      /\ SetGroupSettings([s EXCEPT !.cancel_minutes_before =
                             IF action = "inc" THEN val + 30
                             ELSE IF val - 30 > 0 THEN val - 30 ELSE 0])

\* cb_admin_group_settings_close_mode: the mode is toggled; minutes_before with
\* no (or zero) minutes gets 30
cb_admin_group_settings_close_mode(a) ==
  LET s == group_settings[GroupId]
      new_mode == IF s.close_mode = "at_start" THEN "minutes_before" ELSE "at_start"
  IN  /\ is_admin(a)
      /\ SetGroupSettings(
           IF new_mode = "minutes_before" /\ s.close_minutes_before \in {None, 0}
           THEN [s EXCEPT !.close_mode = new_mode, !.close_minutes_before = 30]
           ELSE [s EXCEPT !.close_mode = new_mode])

\* cb_admin_group_settings_close_min: steps of 5 from (close_minutes_before or 0)
cb_admin_group_settings_close_min(a, action) ==
  LET s == group_settings[GroupId]
      val == IF s.close_minutes_before = None THEN 0 ELSE s.close_minutes_before
  IN  /\ is_admin(a)
      /\ action = "inc" => val + 5 <= MaxCloseMinutes
      /\ SetGroupSettings([s EXCEPT !.close_minutes_before =
                             IF action = "inc" THEN val + 5
                             ELSE IF val - 5 > 0 THEN val - 5 ELSE 0])

\* message_router in mode admin_group_settings:open_time: the text "HH:MM" the
\* administrator sends, split and converted to <<hour, minute>>, is stored
\* when 0 <= hour <= 23 and 0 <= minute <= 59 and answered "Нужно HH:MM" else
admin_group_settings_open_time(a, raw) ==
  LET s == group_settings[GroupId]
  IN  /\ is_admin(a)
      /\ IF raw[1] < 0 \/ raw[1] > 23 \/ raw[2] < 0 \/ raw[2] > 59
         THEN Reject
         ELSE SetGroupSettings([s EXCEPT !.open_time = raw])

\* the open times an administrator types
TypedOpenTimes == {<<0, 0>>, <<10, 0>>, <<19, 0>>, <<23, 59>>, <<24, 0>>}

SettingsOpenDays ==
  /\ \E a \in Callers : \E action \in {"inc", "dec"} :
       cb_admin_group_settings_open_days(a, action)
  /\ UNCHANGED <<rt, others>>
SettingsCancelMin ==
  /\ \E a \in Callers : \E action \in {"inc", "dec"} :
       cb_admin_group_settings_cancel_min(a, action)
  /\ UNCHANGED <<rt, others>>
SettingsCloseMode ==
  /\ \E a \in Callers : cb_admin_group_settings_close_mode(a)
  /\ UNCHANGED <<rt, others>>
SettingsCloseMin ==
  /\ \E a \in Callers : \E action \in {"inc", "dec"} :
       cb_admin_group_settings_close_min(a, action)
  /\ UNCHANGED <<rt, others>>
SettingsOpenTime ==
  /\ \E a \in Callers : \E raw \in TypedOpenTimes : admin_group_settings_open_time(a, raw)
  /\ UNCHANGED <<rt, others>>

SettingsNext ==
  \/ SettingsOpenDays
  \/ SettingsCancelMin
  \/ SettingsCloseMode
  \/ SettingsCloseMin
  \/ SettingsOpenTime

\* an administrator changing the settings of a group that has a training slot
SettingsSpec == SettingsInit /\ [][SettingsNext]_vars

\* C38: closeInstant equals startsAt when the close rule is AtStart or when the
\* rule is MinutesBefore with no minutes value set, and startsAt minus n
\* minutes for MinutesBefore(n); cancelDeadline equals startsAt minus
\* cancelMinutesBefore; so, the settings being non-negative, closeInstant and
\* cancelDeadline are never later than startsAt.
C38_CloseAndCancel ==
  LET s == group_settings[GroupId]
      starts_at == training_slots[SlotId].starts_at
  IN  /\ s.close_mode = "at_start" => SlotClose = starts_at
      /\ (s.close_mode = "minutes_before" /\ s.close_minutes_before = None)
           => SlotClose = starts_at
      /\ (s.close_mode = "minutes_before" /\ s.close_minutes_before # None)
           => SlotClose = starts_at - s.close_minutes_before
      /\ SlotCancel = starts_at - s.cancel_minutes_before
      /\ s.close_minutes_before # None => s.close_minutes_before >= 0
      /\ s.cancel_minutes_before >= 0
      /\ SlotClose <= starts_at
      /\ SlotCancel <= starts_at

\* the close rule is AtStart while a minutes value set earlier is still stored,
\* and the cancel minutes have been changed
C38_Witness ==
  LET s == group_settings[GroupId]
  IN  /\ s.close_mode = "at_start"
      /\ s.close_minutes_before = 35
      /\ s.cancel_minutes_before = 30
      /\ SlotClose = training_slots[SlotId].starts_at

\* ----------------------------------------------------------------------- C39
\* C39: for every group setting an administrator can reach and every slot
\* start time, openInstant is earlier than closeInstant, so the slot has a
\* non-empty interval of now values in which Join is not rejected by the time
\* checks.
C39_WindowNotEmpty ==
  /\ SlotOpen < SlotClose
  /\ \E t \in SlotOpen..(SlotClose - 1) : ~(t < SlotOpen) /\ ~(t >= SlotClose)
=============================================================================
